---- MODULE Spec2Model ----
(***************************************************************************)
(* A model of catma_py/catma.py: the Range algebra, the stand-off merger   *)
(* of TEIAnnotationWriter and the inline projector of XMLSourceDocument.   *)
(***************************************************************************)
EXTENDS Integers, Sequences, FiniteSets, TLC

VARIABLES
    \* Range algebra harness: two ranges, the operation applied, its result
    ra, rb, rop, rres,
    \* TEIAnnotationWriter: text_length, the flattened annotation list
    \* (each annotation is its list of ranges), the loop counter of
    \* merge_ranges, the merged_ranges dict and the position of the call
    text_length, annotations, counter, merged_ranges, merge_pc,
    \* XMLSourceDocument: the element tree (nodes[1] is the root), parent_map,
    \* the live overlay list document_annotations, the annotations handed to
    \* apply so far, the position inside apply (doc_pc, the overlay being
    \* applied, the layers of a cross-boundary overlay still to do), the
    \* number of apply calls made, a record of the last surgery step and the
    \* tree as XML.parse returned it (source, never changed afterwards) and
    \* what the current or last call of apply was entered with (entry)
    nodes, parent_map, document_annotations, doc_annotations,
    doc_pc, apply_index, layers, calls, last_step, source, entry,
    \* TEI round trip: the file as it is, the collection of the last
    \* TEIAnnotationReader, the collection of the first one and the position
    tei_file, reader, first_read, tei_pc,
    \* seek_position call by call: the pointer and the calls not returned
    pointer, seek_stack,
    \* HotCorefDeTokenHandler: the handler object, what it printed, the line
    \* of its last call of token and how that call ended
    handler, stdout, token_line, token_pc

vars == <<ra, rb, rop, rres, text_length, annotations, counter, merged_ranges, merge_pc,
          nodes, parent_map, document_annotations, doc_annotations,
          doc_pc, apply_index, layers, calls, last_step, source, entry,
          tei_file, reader, first_read, tei_pc, pointer, seek_stack,
          handler, stdout, token_line, token_pc>>

range_vars == <<ra, rb, rop, rres>>
merge_vars == <<text_length, annotations, counter, merged_ranges, merge_pc>>
doc_vars == <<nodes, parent_map, document_annotations, doc_annotations,
              doc_pc, apply_index, layers, calls, last_step, source, entry>>
tei_vars == <<tei_file, reader, first_read, tei_pc>>
seek_vars == <<pointer, seek_stack>>
token_vars == <<handler, stdout, token_line, token_pc>>

(***************************************************************************)
(* Bounds                                                                  *)
(***************************************************************************)
MaxPos == 3        \* largest offset of a range of the Range harness
MaxLen == 3        \* largest text_length of the merger
MaxAnnos == 2      \* most annotations handed to the merger
MaxRanges == 2     \* most ranges of one annotation handed to the merger
MaxNodes == 3      \* most elements of a source document
MaxText == 2       \* longest text or tail of a source document
MaxDocAnnos == 2   \* most annotations handed to one XMLSourceDocument.apply
MaxCalls == 1      \* most calls of XMLSourceDocument.apply on one document
MaxFlat == 5       \* longest flat text of a source document
MaxBlank == 1      \* most white space only strings of a source document
MaxDocRanges == 1  \* most ranges of one annotation handed to XMLSourceDocument.apply
MaxAgainCalls == 1 \* most further calls of apply on a document applied before
MaxAgainAnnos == 1 \* most annotations handed to a further call of apply
MaxAgainNodes == 2 \* most elements of a document that apply is called on again
MaxAgainFlat == 3  \* longest flat text of a document that apply is called on again
MaxManyRanges == 3 \* most ranges of the annotation of a call with several ranges
MaxTeiLen == 3     \* largest offset of a ptr of a TEI file
MaxSegs == 2       \* most children of <ab> of a TEI file that is read first
MaxFs == 2         \* most annotations of a TEI file

\* HotCorefDeTokenHandler: the length of a word, the indexes of the
\* coreferences, the values of column 13 of a line and the lines handed over
MaxWord == 2
MaxIndex == 2
MaxEntries == 2
MaxLines == 6

(***************************************************************************)
(* Helpers                                                                 *)
(***************************************************************************)
Max(x, y) == IF x >= y THEN x ELSE y
Min(x, y) == IF x <= y THEN x ELSE y

SeqsUpTo(S, n) == UNION {[1..k -> S] : k \in 0..n}

RECURSIVE Perms(_)
Perms(S) ==
    IF S = {} THEN {<<>>}
    ELSE UNION {{<<x>> \o p : p \in Perms(S \ {x})} : x \in S}

(***************************************************************************)
(* class Range                                                             *)
(***************************************************************************)
Range(start, end) == [start |-> start, end |-> end]

\* Python's None where a Range is expected
None == [start |-> -1, end |-> -1]

RangesWithin(lo, hi) == {Range(s, e) : s \in lo..hi, e \in lo..hi} \cap
                        {r \in [start : lo..hi, end : lo..hi] : r.start <= r.end}

is_in_between_inclusive_edge(self, point) ==
    point >= self.start /\ point <= self.end

is_in_between_exclusive_edge(self, point) ==
    point > self.start /\ point < self.end

is_after(self, point) == self.end < point

is_point(self) == self.start = self.end

is_in_between(self, other) ==
    self.start >= other.start /\ self.end <= other.end

\* get_overlapping_range without the edge-touching test
get_overlapping_range_no_edge(self, other) ==
    IF is_in_between_inclusive_edge(self, other.start)
    THEN IF is_in_between_inclusive_edge(self, other.end)
         THEN Range(other.start, other.end)
         ELSE IF is_after(self, other.end)
              THEN Range(other.start, self.end)
              ELSE None
    ELSE IF ~is_after(self, other.start)
         THEN IF is_in_between_inclusive_edge(self, other.end)
              THEN Range(self.start, other.end)
              ELSE IF is_after(self, other.end)
                   THEN Range(self.start, self.end)
                   ELSE None
         ELSE None

get_overlapping_range(self, other) ==
    IF other.start = self.end \/ self.start = other.end
    THEN None
    ELSE IF is_in_between_inclusive_edge(self, other.start)
         THEN IF is_in_between_inclusive_edge(self, other.end)
              THEN Range(other.start, other.end)
              ELSE IF is_after(self, other.end)
                   THEN Range(other.start, self.end)
                   ELSE None
         ELSE IF ~is_after(self, other.start)
              THEN IF is_in_between_inclusive_edge(self, other.end)
                   THEN Range(self.start, other.end)
                   ELSE IF is_after(self, other.end)
                        THEN Range(self.start, self.end)
                        ELSE None
              ELSE None

has_overlapping_range(self, other) == get_overlapping_range(self, other) # None

\* the sub-sequence of ranges (in their order) that overlap self
get_overlapping_ranges(self, ranges) ==
    SelectSeq(ranges, LAMBDA other : has_overlapping_range(self, other))

get_disjoint_ranges(self, other) ==
    IF is_in_between_exclusive_edge(self, other.start)
    THEN <<Range(self.start, other.start)>> \o
         (IF is_in_between_exclusive_edge(self, other.end)
          THEN <<Range(other.end, self.end)>>
          ELSE <<>>)
    ELSE IF ~is_after(self, other.end)
         THEN <<Range(other.end, self.end)>>
         ELSE <<>>

Range_eq(self, other) == <<self.start, self.end>> = <<other.start, other.end>>

Range_le(self, other) ==
    IF self.start <= other.start THEN self.end <= other.end ELSE FALSE

Range_lt(self, other) ==
    IF self.start < other.start THEN TRUE
    ELSE IF self.start = other.start THEN self.end < other.end
    ELSE FALSE

Range_ge(self, other) ==
    IF self.start >= other.start THEN self.end >= other.end ELSE FALSE

Range_gt(self, other) ==
    IF self.start > other.start THEN TRUE
    ELSE IF self.start = other.start THEN self.end > other.end
    ELSE FALSE

(***************************************************************************)
(* The characters a range covers (half-open), used to state the claims     *)
(***************************************************************************)
Chars(r) == {p \in r.start..(r.end - 1) : TRUE}

RECURSIVE CharsOfSeq(_)
CharsOfSeq(rs) ==
    IF rs = <<>> THEN {} ELSE Chars(Head(rs)) \cup CharsOfSeq(Tail(rs))

LexLt(a, b) == a.start < b.start \/ (a.start = b.start /\ a.end < b.end)
LexLe(a, b) == LexLt(a, b) \/ a = b

(***************************************************************************)
(* Range harness: the operations applied to a pair of ranges               *)
(***************************************************************************)
RangeInit ==
    /\ ra \in RangesWithin(0, MaxPos)
    /\ rb \in RangesWithin(0, MaxPos)
    /\ rop = "none"
    /\ rres = None

ApplyOverlap ==
    /\ rop = "none"
    /\ rop' = "overlap"
    /\ rres' = [ab |-> get_overlapping_range(ra, rb),
                ba |-> get_overlapping_range(rb, ra)]
    /\ UNCHANGED <<ra, rb>>

ApplyDisjoint ==
    /\ rop = "none"
    /\ rop' = "disjoint"
    /\ rres' = [disjoint |-> get_disjoint_ranges(ra, rb),
                overlap |-> get_overlapping_range(ra, rb)]
    /\ UNCHANGED <<ra, rb>>

ApplyCompare ==
    /\ rop = "none"
    /\ rop' = "compare"
    /\ rres' = [eq |-> Range_eq(ra, rb), le |-> Range_le(ra, rb),
                lt |-> Range_lt(ra, rb), ge |-> Range_ge(ra, rb),
                gt |-> Range_gt(ra, rb)]
    /\ UNCHANGED <<ra, rb>>

(***************************************************************************)
(* TEIAnnotationWriter.merge_ranges                                        *)
(* merged_ranges is a Python dict: a sequence of entries in insertion      *)
(* order; an annotation is named by its index in the annotation list.      *)
(***************************************************************************)
dict_index(d, key) ==
    IF \E i \in 1..Len(d) : d[i].k = key
    THEN CHOOSE i \in 1..Len(d) : d[i].k = key
    ELSE 0

dict_has(d, key) == dict_index(d, key) # 0

dict_get(d, key) == d[dict_index(d, key)].v

dict_keys(d) == [i \in 1..Len(d) |-> d[i].k]

dict_set(d, key, val) ==
    IF dict_has(d, key)
    THEN [d EXCEPT ![dict_index(d, key)].v = val]
    ELSE Append(d, [k |-> key, v |-> val])

dict_pop(d, key) ==
    SelectSeq(d, LAMBDA e : e.k # key)

\* merge_affected without `merged_ranges.pop(affected_range)`
merge_affected_keeps_key(st, affected_range, target_range, anno) ==
    IF st.err \/ ~dict_has(st.m, affected_range)
    THEN [m |-> st.m, err |-> TRUE]
    ELSE IF is_in_between(affected_range, target_range)
    THEN [m |-> dict_set(st.m, affected_range,
                         Append(dict_get(st.m, affected_range), anno)),
          err |-> FALSE]
    ELSE LET affected_annotations == dict_get(st.m, affected_range)
             overlapping_range == get_overlapping_range(affected_range, target_range)
             disjoint_ranges == get_disjoint_ranges(affected_range, target_range)
         IN  IF disjoint_ranges = <<>>
             THEN [m |-> st.m, err |-> TRUE]
             ELSE LET d1 == dict_set(st.m, disjoint_ranges[1], affected_annotations)
                      d2 == IF Len(disjoint_ranges) = 2
                            THEN dict_set(d1, disjoint_ranges[2], affected_annotations)
                            ELSE d1
                      d3 == dict_set(d2, overlapping_range,
                                     Append(affected_annotations, anno))
                  IN  [m |-> d3, err |-> FALSE]

\* the body of the loop over affected_ranges; st = [m : dict, err : BOOLEAN],
\* err stands for an exception raised by the body
merge_affected(st, affected_range, target_range, anno) ==
    IF st.err \/ ~dict_has(st.m, affected_range)
    THEN [m |-> st.m, err |-> TRUE]
    ELSE IF is_in_between(affected_range, target_range)
    THEN [m |-> dict_set(st.m, affected_range,
                         Append(dict_get(st.m, affected_range), anno)),
          err |-> FALSE]
    ELSE LET affected_annotations == dict_get(st.m, affected_range)
             overlapping_range == get_overlapping_range(affected_range, target_range)
             disjoint_ranges == get_disjoint_ranges(affected_range, target_range)
         IN  IF disjoint_ranges = <<>>
             THEN [m |-> st.m, err |-> TRUE]
             ELSE LET d1 == dict_set(st.m, disjoint_ranges[1], affected_annotations)
                      d2 == IF Len(disjoint_ranges) = 2
                            THEN dict_set(d1, disjoint_ranges[2], affected_annotations)
                            ELSE d1
                      d3 == dict_set(d2, overlapping_range,
                                     Append(affected_annotations, anno))
                  IN  [m |-> dict_pop(d3, affected_range), err |-> FALSE]

RECURSIVE merge_affected_ranges(_, _, _, _)
merge_affected_ranges(st, affected_ranges, target_range, anno) ==
    IF affected_ranges = <<>> THEN st
    ELSE merge_affected_ranges(
            merge_affected(st, Head(affected_ranges), target_range, anno),
            Tail(affected_ranges), target_range, anno)

\* one iteration of the loop over anno.ranges
merge_target(st, target_range, anno) ==
    IF st.err THEN st
    ELSE merge_affected_ranges(
            st, get_overlapping_ranges(target_range, dict_keys(st.m)),
            target_range, anno)

RECURSIVE merge_targets(_, _, _)
merge_targets(st, ranges, anno) ==
    IF ranges = <<>> THEN st
    ELSE merge_targets(merge_target(st, Head(ranges), anno), Tail(ranges), anno)

\* one iteration of the loop over annotations
merge_anno(st, annos, anno) == merge_targets(st, annos[anno], anno)

merge_seed(length) == <<[k |-> Range(0, length), v |-> <<>>]>>

\* the whole of merge_ranges on the annotations taken in the given order
RECURSIVE merge_in_order(_, _, _)
merge_in_order(st, annos, order) ==
    IF order = <<>> THEN st
    ELSE merge_in_order(merge_anno(st, annos, Head(order)), annos, Tail(order))

merge_ranges(length, annos, order) ==
    merge_in_order([m |-> merge_seed(length), err |-> FALSE], annos, order)

MergeInit ==
    /\ text_length \in 0..MaxLen
    /\ \E n \in 0..MaxAnnos :
          annotations \in [1..n -> SeqsUpTo(RangesWithin(0, text_length), MaxRanges)]
    /\ counter = 0
    /\ merged_ranges = merge_seed(text_length)
    /\ merge_pc = "loop"

\* the body of `for anno in annotations`
MergeAnno ==
    /\ merge_pc = "loop"
    /\ counter < Len(annotations)
    /\ LET st == merge_anno([m |-> merged_ranges, err |-> FALSE],
                            annotations, counter + 1)
       IN  /\ merged_ranges' = st.m
           /\ merge_pc' = IF st.err THEN "raised" ELSE "loop"
    /\ counter' = counter + 1
    /\ UNCHANGED <<text_length, annotations>>

\* `return merged_ranges`
MergeReturn ==
    /\ merge_pc = "loop"
    /\ counter = Len(annotations)
    /\ merge_pc' = "returned"
    /\ UNCHANGED <<text_length, annotations, counter, merged_ranges>>


(***************************************************************************)
(* Strings and the element tree                                            *)
(* A string is a sequence of character codes: an odd code is a letter, an  *)
(* even code is white space; every character of a source document has its  *)
(* own code. NoneStr is Python's None where a string is expected.          *)
(***************************************************************************)
NoneStr == <<-1>>

\* the character of a synthetic newline, '\n'
NL == 0

IsSpace(c) == c % 2 = 0

\* len(s.strip()) > 0
HasNonSpace(s) == \E i \in 1..Len(s) : ~IsSpace(s[i])

\* Python's s[a:b], also for negative and out-of-range indices
PySlice(s, a, b) ==
    LET n == Len(s)
        lo == IF a < 0 THEN Max(a + n, 0) ELSE Min(a, n)
        hi == IF b < 0 THEN Max(b + n, 0) ELSE Min(b, n)
    IN  IF lo >= hi THEN <<>> ELSE SubSeq(s, lo + 1, hi)

\* s[a:]
PySliceFrom(s, a) == PySlice(s, a, Len(s))

\* s[:b]
PySliceUpTo(s, b) == PySlice(s, 0, b)

\* an element: text, tail, the list of its children and, for an element
\* inserted by the projector, the annotation whose annotationId it carries
\* (0 for an element of the source document)
Element(text, tail, children, anno) ==
    [text |-> text, tail |-> tail, children |-> children, anno |-> anno]

SeqIndex(seq, x) ==
    IF \E i \in 1..Len(seq) : seq[i] = x
    THEN CHOOSE i \in 1..Len(seq) : seq[i] = x /\ \A j \in 1..(i - 1) : seq[j] # x
    ELSE 0

SeqInsert(seq, pos, x) ==
    SubSeq(seq, 1, pos) \o <<x>> \o SubSeq(seq, pos + 1, Len(seq))

SeqRemove(seq, x) ==
    LET i == SeqIndex(seq, x)
    IN  IF i = 0 THEN seq ELSE SubSeq(seq, 1, i - 1) \o SubSeq(seq, i + 1, Len(seq))

has_text_content(node) ==
    node.text # NoneStr /\ HasNonSpace(node.text)

has_tail_content(node) ==
    node.tail # NoneStr /\ HasNonSpace(node.tail)

(***************************************************************************)
(* class XMLSourceDocumentChunk                                            *)
(* node is 0 for the chunk of a synthetic newline (node=None)              *)
(***************************************************************************)
Chunk(start_pos, end_pos, node, is_tail, is_newline) ==
    [range |-> Range(start_pos, end_pos), node |-> node,
     is_tail |-> is_tail, is_newline |-> is_newline]

\* XMLSourceDocumentChunk.__eq__: the node is not compared
Chunk_eq(self, other) ==
    /\ self.range = other.range
    /\ self.is_tail = other.is_tail
    /\ self.is_newline = other.is_newline

\* the string a chunk reads: the tail or the text of its node
chunk_string(ns, self) ==
    IF self.is_tail THEN ns[self.node].tail ELSE ns[self.node].text

\* reading the string of the chunk raises: no node, or the string is None
chunk_string_raises(ns, self) ==
    ~self.is_newline /\ (self.node = 0 \/ chunk_string(ns, self) = NoneStr)

get_text(ns, self, text_range) ==
    IF self.is_newline THEN <<NL>>
    ELSE PySlice(chunk_string(ns, self),
                 text_range.start - self.range.start,
                 text_range.end - self.range.start)

get_text_from(ns, self, pos) ==
    IF self.is_newline /\ pos - self.range.start > 0 THEN <<NL>>
    ELSE IF self.is_newline THEN <<>>
    ELSE PySliceFrom(chunk_string(ns, self), pos - self.range.start)

get_text_up_to(ns, self, pos) ==
    IF self.is_newline /\ pos - self.range.start > 0 THEN <<NL>>
    ELSE IF self.is_newline THEN <<>>
    ELSE PySliceUpTo(chunk_string(ns, self), pos - self.range.start)

\* get_layer raises KeyError for the tail chunk of a node without parent
get_layer_raises(pm, self) == self.is_tail /\ pm[self.node] = 0

get_layer(pm, self) ==
    IF self.is_tail THEN pm[self.node] ELSE self.node

(***************************************************************************)
(* class XMLSourceDocumentPositionPointer                                  *)
(***************************************************************************)
PositionPointer(search_pos) ==
    [search_pos |-> search_pos, pos |-> 0, chunks |-> <<>>, locked |-> FALSE]

\* is_greater that is true at the position itself
is_greater_or_equal(self, pos) == self.pos >= pos

is_greater(self, pos) == self.pos > pos

\* increment whose chunk is one character longer than the string
increment_one_too_long(self, ns, node, is_tail) ==
    IF self.locked THEN self
    ELSE LET start_pos == self.pos
             new_pos == start_pos + 1 +
                 Len(IF is_tail THEN ns[node].tail ELSE ns[node].text)
             moved == [self EXCEPT
                 !.pos = new_pos,
                 !.chunks = Append(@, Chunk(start_pos, new_pos, node, is_tail, FALSE))]
         IN  [moved EXCEPT !.locked = is_greater(moved, self.search_pos)]

increment(self, ns, node, is_tail) ==
    IF self.locked THEN self
    ELSE LET start_pos == self.pos
             new_pos == start_pos +
                 Len(IF is_tail THEN ns[node].tail ELSE ns[node].text)
             moved == [self EXCEPT
                 !.pos = new_pos,
                 !.chunks = Append(@, Chunk(start_pos, new_pos, node, is_tail, FALSE))]
         IN  [moved EXCEPT !.locked = is_greater(moved, self.search_pos)]

increment_by_newline(self) ==
    IF self.locked THEN self
    ELSE LET start_pos == self.pos
             moved == [self EXCEPT
                 !.pos = start_pos + 1,
                 !.chunks = Append(@, Chunk(start_pos, start_pos + 1, 0, FALSE, TRUE))]
         IN  [moved EXCEPT !.locked = is_greater(moved, self.search_pos)]

\* the scan of get_max_matching_chunk from chunk i down to the oldest;
\* the result is the index of the chunk in self.chunks, 0 for None
RECURSIVE max_matching_scan(_, _, _, _)
max_matching_scan(chunks, search_pos, i, passed_search_pos) ==
    IF i = 0 THEN 0
    ELSE LET is_in_range == is_in_between_inclusive_edge(chunks[i].range, search_pos)
         IN  IF ~chunks[i].is_newline /\ (is_in_range \/ passed_search_pos)
             THEN i
             ELSE max_matching_scan(chunks, search_pos, i - 1,
                                    passed_search_pos \/ is_in_range)

\* get_max_matching_chunk whose scan starts with passed_search_pos set
get_max_matching_chunk_passed(self) ==
    max_matching_scan(self.chunks, self.search_pos, Len(self.chunks), TRUE)

get_max_matching_chunk(self) ==
    max_matching_scan(self.chunks, self.search_pos, Len(self.chunks), FALSE)

\* the scan of get_min_matching_chunk; last_chunk is an index, 0 for None
RECURSIVE min_matching_scan(_, _, _, _)
min_matching_scan(chunks, search_pos, i, last_chunk) ==
    IF i = 0 THEN last_chunk
    ELSE IF /\ ~is_in_between_inclusive_edge(chunks[i].range, search_pos)
            /\ last_chunk # 0
            /\ ~chunks[last_chunk].is_newline
         THEN last_chunk
         ELSE min_matching_scan(chunks, search_pos, i - 1, i)

get_min_matching_chunk(self) ==
    min_matching_scan(self.chunks, self.search_pos, Len(self.chunks), 0)

(***************************************************************************)
(* XMLSourceDocument.seek_position                                         *)
(***************************************************************************)
RECURSIVE seek_position(_, _, _)
RECURSIVE seek_children(_, _, _, _)

seek_position(ns, parent_node, current_pos) ==
    LET node == ns[parent_node]
        p1 == IF has_text_content(node)
              THEN increment(current_pos, ns, parent_node, FALSE)
              ELSE current_pos
    IN  IF p1.locked THEN p1
        ELSE LET p2 == seek_children(ns, node.children, 1, p1)
             IN  IF p2.locked THEN p2
                 ELSE LET p3 == IF has_text_content(node) \/ Len(node.children) > 0
                                THEN increment_by_newline(p2)
                                ELSE p2
                      IN  IF has_tail_content(node)
                          THEN increment(p3, ns, parent_node, TRUE)
                          ELSE p3

\* the loop over the children of parent_node, from child i on
seek_children(ns, children, i, current_pos) ==
    IF i > Len(children) THEN current_pos
    ELSE LET p == seek_position(ns, children[i], current_pos)
         IN  IF p.locked THEN p
             ELSE seek_children(ns, children, i + 1, p)

(***************************************************************************)
(* Range.merge_ranges and sorted()                                         *)
(***************************************************************************)
\* sorted(ranges): a stable insertion sort by Range.__lt__
RECURSIVE sort_insert(_, _)
sort_insert(sorted_ranges, r) ==
    IF sorted_ranges = <<>> THEN <<r>>
    ELSE IF Range_lt(r, Head(sorted_ranges))
         THEN <<r>> \o sorted_ranges
         ELSE <<Head(sorted_ranges)>> \o sort_insert(Tail(sorted_ranges), r)

RECURSIVE sorted(_)
sorted(ranges) ==
    IF ranges = <<>> THEN <<>>
    ELSE sort_insert(sorted(SubSeq(ranges, 1, Len(ranges) - 1)), ranges[Len(ranges)])

\* the loop of Range.merge_ranges: result so far, cur_range, ranges left
RECURSIVE merge_ranges_loop(_, _, _)
merge_ranges_loop(result, cur_range, rest) ==
    IF rest = <<>> THEN Append(result, cur_range)
    ELSE IF cur_range.end = Head(rest).start
         THEN merge_ranges_loop(result, Range(cur_range.start, Head(rest).end), Tail(rest))
         ELSE merge_ranges_loop(Append(result, cur_range), Head(rest), Tail(rest))

Range_merge_ranges(sorted_ranges) ==
    IF Len(sorted_ranges) = 0 THEN <<>>
    ELSE merge_ranges_loop(<<>>, Head(sorted_ranges), Tail(sorted_ranges))

(***************************************************************************)
(* The source documents                                                    *)
(***************************************************************************)
\* the ancestors of node k, and k itself, under the parent vector pv
RECURSIVE AncestorsOrSelf(_, _)
AncestorsOrSelf(pv, k) ==
    IF k = 0 THEN {} ELSE {k} \cup AncestorsOrSelf(pv, pv[k])

\* the ordered trees of n elements, elements numbered in document order:
\* the parent of element i is element i - 1 or one of its ancestors
TreeShapes(n) ==
    {pv \in [1..n -> 0..(n - 1)] :
        /\ pv[1] = 0
        /\ \A i \in 2..n : pv[i] \in AncestorsOrSelf(pv, i - 1)}

\* a set of element numbers as a list in increasing order
RECURSIVE InOrder(_)
InOrder(S) ==
    IF S = {} THEN <<>>
    ELSE LET m == CHOOSE x \in S : \A y \in S : x <= y
         IN  <<m>> \o InOrder(S \ {m})

ChildrenOf(pv, k) == InOrder({i \in 1..Len(pv) : pv[i] = k})

\* the strings a text or a tail of a source document is chosen from, by
\* choice: 0 is None, 1..MaxText is that many letters, MaxText + 1 is one
\* white space; slot is the number of the string in the document, which
\* makes its characters unique
Letters(slot, n) == [j \in 1..n |-> 2 * (slot * (MaxText + 1) + j) + 1]

Blank(slot) == <<2 * (slot * (MaxText + 1) + 1)>>

TextChoice(slot, choice) ==
    IF choice = 0 THEN NoneStr
    ELSE IF choice = MaxText + 1 THEN Blank(slot)
    ELSE Letters(slot, choice)

\* XML.parse: a document of the given shape; the root has no tail
SourceDocument(pv, texts, tails) ==
    [i \in 1..Len(pv) |->
        Element(TextChoice(2 * i - 1, texts[i]),
                IF i = 1 THEN NoneStr ELSE TextChoice(2 * i, tails[i]),
                ChildrenOf(pv, i), 0)]

\* the parent_map built by XMLSourceDocument.__init__: 0 where an element
\* is not a key of the map
ParentMapOf(ns) ==
    [c \in 1..Len(ns) |->
        IF \E q \in 1..Len(ns) : SeqIndex(ns[q].children, c) # 0
        THEN CHOOSE q \in 1..Len(ns) : SeqIndex(ns[q].children, c) # 0
        ELSE 0]

(***************************************************************************)
(* XMLSourceDocumentPositionPointer.recalculate                            *)
(***************************************************************************)
\* Python's None where a chunk is expected
NoChunk == [range |-> None, node |-> 0, is_tail |-> FALSE, is_newline |-> FALSE]

\* next((c for c in self.chunks if c.range == r), None), as an index (0: None)
FirstWithRange(chunks, r) ==
    IF \E i \in 1..Len(chunks) : chunks[i].range = r
    THEN CHOOSE i \in 1..Len(chunks) :
            /\ chunks[i].range = r
            /\ \A j \in 1..(i - 1) : chunks[j].range # r
    ELSE 0

\* self.chunks.index(chunk), as an index (0: not in the list)
ChunkIndex(chunks, chunk) ==
    IF \E i \in 1..Len(chunks) : Chunk_eq(chunks[i], chunk)
    THEN CHOOSE i \in 1..Len(chunks) :
            /\ Chunk_eq(chunks[i], chunk)
            /\ \A j \in 1..(i - 1) : ~Chunk_eq(chunks[j], chunk)
    ELSE 0

\* a chunk object built from another one, as recalculate builds them
ChunkCopy(c) == Chunk(c.range.start, c.range.end, c.node, c.is_tail, FALSE)

\* lines 1238-1247 of recalculate: old_end is the place of the old end chunk
\* object in chunks, 0 for None
recalculate_end(self, end_chunk, anno_tail_chunk, chunks, old_end) ==
    IF old_end = 0 THEN [self EXCEPT !.chunks = chunks]
    ELSE IF anno_tail_chunk # NoChunk /\ anno_tail_chunk.range.start <= self.search_pos
    THEN [self EXCEPT !.chunks =
             SeqInsert([chunks EXCEPT ![old_end].range = end_chunk.range],
                       ChunkIndex(chunks, chunks[old_end]), ChunkCopy(anno_tail_chunk))]
    ELSE [self EXCEPT !.chunks = [chunks EXCEPT ![old_end].range = end_chunk.range]]

\* lines 1223-1236 of recalculate: the insertions behind place idx, 0 for
\* idx = -1; the old end chunk object moves on with every insertion before it
recalculate_insert(self, end_chunk, old_end_chunk_range, anno_text_chunk, anno_tail_chunk, chunks, idx, old_end) ==
    LET with_text == idx # 0 /\ anno_text_chunk.range.start <= self.search_pos
        idx1 == IF with_text THEN idx + 1 ELSE idx
        with_tail == /\ idx # 0
                     /\ old_end_chunk_range = None
                     /\ anno_tail_chunk # NoChunk
                     /\ anno_tail_chunk.range.start <= self.search_pos
        chunks2 == IF with_text
                   THEN SeqInsert(chunks, idx, ChunkCopy(anno_text_chunk))
                   ELSE chunks
        old_end1 == IF old_end # 0 /\ with_text /\ old_end > idx
                    THEN old_end + 1 ELSE old_end
    IN  recalculate_end(self, end_chunk, anno_tail_chunk,
            IF with_tail
            THEN SeqInsert(chunks2, idx1, ChunkCopy(anno_tail_chunk))
            ELSE chunks2,
            IF old_end1 # 0 /\ with_tail /\ old_end1 > idx1
            THEN old_end1 + 1 ELSE old_end1)

\* lines 1214-1221 of recalculate: old_start and old_end are the places of
\* the chunk objects found by range, 0 for None
recalculate_start(self, start_chunk, end_chunk, old_end_chunk_range, anno_text_chunk, anno_tail_chunk, old_start, old_end) ==
    recalculate_insert(self, end_chunk, old_end_chunk_range, anno_text_chunk,
        anno_tail_chunk,
        IF old_start # 0
        THEN [self.chunks EXCEPT ![old_start].range = start_chunk.range]
        ELSE self.chunks,
        IF old_start # 0
        THEN ChunkIndex(self.chunks, self.chunks[old_start])
        ELSE ChunkIndex(self.chunks, start_chunk),
        old_end)

recalculate(self, start_chunk, old_start_chunk_range, end_chunk, old_end_chunk_range, anno_text_chunk, anno_tail_chunk) ==
    recalculate_start(self, start_chunk, end_chunk, old_end_chunk_range, anno_text_chunk,
        anno_tail_chunk,
        FirstWithRange(self.chunks, old_start_chunk_range),
        IF old_end_chunk_range # None
        THEN FirstWithRange(self.chunks, old_end_chunk_range)
        ELSE 0)

\* XMLSourceDocumentAnnotation.recalculate_positions
Annotation_recalculate_positions(da, start_chunk, old_start_chunk_range, end_chunk, old_end_chunk_range, anno_text_chunk, anno_tail_chunk) ==
    [da EXCEPT
        !.start_pos = recalculate(@, start_chunk, old_start_chunk_range, end_chunk,
                                  old_end_chunk_range, anno_text_chunk, anno_tail_chunk),
        !.end_pos = recalculate(@, start_chunk, old_start_chunk_range, end_chunk,
                                old_end_chunk_range, anno_text_chunk, anno_tail_chunk)]

\* XMLSourceDocument.recalculate_positions: the broadcast to every overlay
recalculate_positions(das, start_chunk, old_start_chunk_range, end_chunk, old_end_chunk_range, anno_text_chunk, anno_tail_chunk) ==
    [i \in 1..Len(das) |->
        Annotation_recalculate_positions(das[i], start_chunk, old_start_chunk_range,
            end_chunk, old_end_chunk_range, anno_text_chunk, anno_tail_chunk)]

(***************************************************************************)
(* The document under surgery: d = [ns, pm, das, err, new], the nodes, the *)
(* parent_map, document_annotations, whether an exception was raised and   *)
(* the element inserted by the step (0: none). A chunk object is named by  *)
(* the overlay and pointer whose list holds it and its place in the list:  *)
(* ref = [da, side, c] with side "start_pos" or "end_pos".                 *)
(***************************************************************************)
Ref(da, side, c) == [da |-> da, side |-> side, c |-> c]

Deref(das, ref) ==
    IF ref.side = "start_pos" THEN das[ref.da].start_pos.chunks[ref.c]
    ELSE das[ref.da].end_pos.chunks[ref.c]

\* chunk.range = r for the chunk object named by ref
SetChunkRange(das, ref, r) ==
    IF ref.side = "start_pos"
    THEN [das EXCEPT ![ref.da].start_pos.chunks[ref.c].range = r]
    ELSE [das EXCEPT ![ref.da].end_pos.chunks[ref.c].range = r]

Raise(d) == [d EXCEPT !.err = TRUE]

\* XML.Element(...) appended to the store of elements, not yet in the tree
NewElement(ns, text, tail, anno) == Append(ns, Element(text, tail, <<>>, anno))

\* parent.insert(pos, child) with pos counted as by SeqInsert
InsertChild(ns, parent, pos, child) ==
    [ns EXCEPT ![parent].children = SeqInsert(@, pos, child)]

\* MoveChild that forgets parent.remove(child)
MoveChild_no_remove(ns, parent, child, new_parent) ==
    [ns EXCEPT ![new_parent].children = Append(@, child)]

\* parent.remove(child); new_parent.append(child)
MoveChild(ns, parent, child, new_parent) ==
    [[ns EXCEPT ![parent].children = SeqRemove(@, child)]
        EXCEPT ![new_parent].children = Append(@, child)]

(***************************************************************************)
(* XMLSourceDocumentChunk.apply                                            *)
(***************************************************************************)
\* Chunk_apply_insert that puts the element of a tail chunk before the node
\* of the chunk
Chunk_apply_insert_before(d, ref, merged_range, self, anno_tail, parent, ns1) ==
    LET anno_el == Len(ns1)
        new_text_or_tail == get_text_up_to(d.ns, self, merged_range.start)
        new_range == Range(self.range.start, merged_range.start)
    IN  [ns |-> [InsertChild(ns1, parent,
                     IF self.is_tail
                     THEN SeqIndex(ns1[parent].children, self.node) - 1
                     ELSE 0,
                     anno_el)
                 EXCEPT ![self.node] = IF self.is_tail
                                       THEN [@ EXCEPT !.tail = new_text_or_tail]
                                       ELSE [@ EXCEPT !.text = new_text_or_tail]],
         pm |-> Append(d.pm, parent),
         das |-> recalculate_positions(
                     SetChunkRange(d.das, ref, new_range),
                     [self EXCEPT !.range = new_range], self.range, NoChunk, None,
                     Chunk(merged_range.start, merged_range.end, anno_el, FALSE, FALSE),
                     IF Len(anno_tail) > 0
                     THEN Chunk(merged_range.end, self.range.end, anno_el, TRUE, FALSE)
                     ELSE NoChunk),
         err |-> FALSE, new |-> anno_el]

\* lines 1064-1086 of Chunk.apply: the element anno_el, the last of ns1, is
\* put into the tree and the trails of all overlays are recalculated
Chunk_apply_insert(d, ref, merged_range, self, anno_tail, parent, ns1) ==
    LET anno_el == Len(ns1)
        new_text_or_tail == get_text_up_to(d.ns, self, merged_range.start)
        new_range == Range(self.range.start, merged_range.start)
    IN  [ns |-> [InsertChild(ns1, parent,
                     IF self.is_tail
                     THEN SeqIndex(ns1[parent].children, self.node)
                     ELSE 0,
                     anno_el)
                 EXCEPT ![self.node] = IF self.is_tail
                                       THEN [@ EXCEPT !.tail = new_text_or_tail]
                                       ELSE [@ EXCEPT !.text = new_text_or_tail]],
         pm |-> Append(d.pm, parent),
         das |-> recalculate_positions(
                     SetChunkRange(d.das, ref, new_range),
                     [self EXCEPT !.range = new_range], self.range, NoChunk, None,
                     Chunk(merged_range.start, merged_range.end, anno_el, FALSE, FALSE),
                     IF Len(anno_tail) > 0
                     THEN Chunk(merged_range.end, self.range.end, anno_el, TRUE, FALSE)
                     ELSE NoChunk),
         err |-> FALSE, new |-> anno_el]

\* lines 1045-1063 of Chunk.apply: self is the chunk object named by ref
Chunk_apply_element(d, ref, annotation, merged_range, self) ==
    IF chunk_string_raises(d.ns, self) THEN Raise(d)
    \* a newline chunk has no node: self.node.insert raises
    ELSE IF self.node = 0 THEN Raise(d)
    \* parent_map[self.node] and list(parent).index(self.node)
    ELSE IF self.is_tail /\ d.pm[self.node] = 0 THEN Raise(d)
    ELSE IF self.is_tail
            /\ SeqIndex(d.ns[d.pm[self.node]].children, self.node) = 0 THEN Raise(d)
    ELSE LET anno_tail == get_text_from(d.ns, self, merged_range.end)
         IN  Chunk_apply_insert(d, ref, merged_range, self, anno_tail,
                 IF self.is_tail THEN d.pm[self.node] ELSE self.node,
                 NewElement(d.ns, get_text(d.ns, self, merged_range),
                            IF Len(anno_tail) > 0 THEN anno_tail ELSE NoneStr,
                            annotation))

Chunk_apply(d, ref, annotation, merged_range) ==
    Chunk_apply_element(d, ref, annotation, merged_range, Deref(d.das, ref))

(***************************************************************************)
(* class XMLSourceDocumentAnnotation                                       *)
(***************************************************************************)
DocumentAnnotation(annotation, range, start_pos, end_pos) ==
    [annotation |-> annotation, range |-> range,
     start_pos |-> start_pos, end_pos |-> end_pos]

InSeq(seq, x) == \E i \in 1..Len(seq) : seq[i] = x

\* the while loop of apply that climbs from the layer of a chunk to the top
\* most layer already in the list; fuel bounds the climb by the number of
\* elements, -1 stands for a loop that does not end
RECURSIVE apply_ascend(_, _, _, _, _, _)
apply_ascend(pm, layer_list, end_layer, layer, parent_layer, fuel) ==
    IF parent_layer = 0 \/ pm[parent_layer] = 0 THEN layer
    ELSE IF fuel = 0 THEN -1
    ELSE LET layer1 == IF InSeq(layer_list, parent_layer) THEN parent_layer ELSE layer
         IN  IF layer1 = end_layer \/ parent_layer = end_layer THEN layer1
             ELSE apply_ascend(pm, layer_list, end_layer, layer1, pm[parent_layer],
                               fuel - 1)

\* the loop of apply over self.end_pos.chunks that collects the layers
RECURSIVE apply_layers_loop(_, _, _, _, _, _, _, _)
apply_layers_loop(pm, chunks, i, include, layer_list, start_chunk, end_chunk, end_layer) ==
    IF i > Len(chunks) THEN [layers |-> layer_list, err |-> FALSE]
    ELSE LET chunk == chunks[i]
         IN  IF Chunk_eq(chunk, start_chunk)
             THEN apply_layers_loop(pm, chunks, i + 1, TRUE, layer_list,
                                    start_chunk, end_chunk, end_layer)
             ELSE IF Chunk_eq(chunk, end_chunk)
             THEN apply_layers_loop(pm, chunks, i + 1, FALSE, layer_list,
                                    start_chunk, end_chunk, end_layer)
             ELSE IF include /\ ~chunk.is_newline
             THEN IF get_layer_raises(pm, chunk)
                  THEN [layers |-> layer_list, err |-> TRUE]
                  ELSE LET layer == apply_ascend(pm, layer_list, end_layer,
                                                 get_layer(pm, chunk),
                                                 get_layer(pm, chunk), Len(pm))
                       IN  IF layer = -1
                           THEN [layers |-> layer_list, err |-> TRUE]
                           ELSE apply_layers_loop(pm, chunks, i + 1, include,
                                    IF InSeq(layer_list, layer) THEN layer_list
                                    ELSE Append(layer_list, layer),
                                    start_chunk, end_chunk, end_layer)
             ELSE apply_layers_loop(pm, chunks, i + 1, include, layer_list,
                                    start_chunk, end_chunk, end_layer)

\* lines 1377-1409 of apply: the layers of a cross-boundary overlay
apply_layers(pm, da, start_chunk, end_chunk) ==
    IF get_layer_raises(pm, start_chunk) \/ get_layer_raises(pm, end_chunk)
    THEN [layers |-> <<>>, err |-> TRUE]
    ELSE LET start_layer == get_layer(pm, start_chunk)
             end_layer == get_layer(pm, end_chunk)
             found == apply_layers_loop(pm, da.end_pos.chunks, 1, FALSE,
                                        <<start_layer>>, start_chunk, end_chunk,
                                        end_layer)
         IN  IF found.err THEN found
             ELSE IF InSeq(found.layers, end_layer) THEN found
             ELSE [layers |-> Append(found.layers, end_layer), err |-> FALSE]

\* the while loop of get_chunks_for_layer
RECURSIVE chunks_ascend(_, _, _, _, _, _, _)
chunks_ascend(pm, chunks_by_layer, start_layer, end_layer, current_layer, parent_layer, fuel) ==
    IF parent_layer = 0 \/ pm[parent_layer] = 0 THEN current_layer
    ELSE IF fuel = 0 THEN -1
    ELSE LET layer1 == IF dict_has(chunks_by_layer, parent_layer)
                       THEN parent_layer ELSE current_layer
         IN  IF layer1 = end_layer \/ layer1 = start_layer \/ parent_layer = end_layer
             THEN layer1
             ELSE chunks_ascend(pm, chunks_by_layer, start_layer, end_layer, layer1,
                                pm[parent_layer], fuel - 1)

\* the loop of get_chunks_for_layer over self.end_pos.chunks; chunks_by_layer
\* maps a layer to the chunk objects grouped under it
RECURSIVE chunks_by_layer_loop(_, _, _, _, _, _, _, _, _, _)
chunks_by_layer_loop(pm, da, chunks, i, include, chunks_by_layer, start_chunk, end_chunk, start_layer, end_layer) ==
    IF i > Len(chunks) THEN [m |-> chunks_by_layer, err |-> FALSE]
    ELSE LET chunk == chunks[i]
         IN  IF Chunk_eq(chunk, start_chunk)
             THEN chunks_by_layer_loop(pm, da, chunks, i + 1, TRUE, chunks_by_layer,
                                       start_chunk, end_chunk, start_layer, end_layer)
             ELSE IF Chunk_eq(chunk, end_chunk)
             THEN chunks_by_layer_loop(pm, da, chunks, i + 1, FALSE, chunks_by_layer,
                                       start_chunk, end_chunk, start_layer, end_layer)
             ELSE IF include /\ ~chunk.is_newline
             THEN IF get_layer_raises(pm, chunk)
                  THEN [m |-> chunks_by_layer, err |-> TRUE]
                  ELSE LET current_layer ==
                               chunks_ascend(pm, chunks_by_layer, start_layer, end_layer,
                                             get_layer(pm, chunk), get_layer(pm, chunk),
                                             Len(pm))
                           ref == Ref(da, "end_pos", i)
                       IN  IF current_layer = -1
                           THEN [m |-> chunks_by_layer, err |-> TRUE]
                           ELSE chunks_by_layer_loop(pm, da, chunks, i + 1, include,
                                    IF dict_has(chunks_by_layer, current_layer)
                                    THEN dict_set(chunks_by_layer, current_layer,
                                             Append(dict_get(chunks_by_layer, current_layer), ref))
                                    ELSE dict_set(chunks_by_layer, current_layer, <<ref>>),
                                    start_chunk, end_chunk, start_layer, end_layer)
             ELSE chunks_by_layer_loop(pm, da, chunks, i + 1, include, chunks_by_layer,
                                       start_chunk, end_chunk, start_layer, end_layer)

\* lines 1349-1355 of get_chunks_for_layer: the end chunk joins its layer and
\* the chunks of the layer asked for are returned; grouped is what the loop
\* over the trail left
chunks_of_layer(end_ref, layer, end_layer, grouped) ==
    LET chunks_by_layer ==
            IF dict_has(grouped.m, end_layer)
            THEN dict_set(grouped.m, end_layer,
                          Append(dict_get(grouped.m, end_layer), end_ref))
            ELSE dict_set(grouped.m, end_layer, <<end_ref>>)
    IN  IF grouped.err \/ ~dict_has(chunks_by_layer, layer)
        THEN [chunks |-> <<>>, err |-> TRUE]
        ELSE [chunks |-> dict_get(chunks_by_layer, layer), err |-> FALSE]

\* lines 1304-1348 of get_chunks_for_layer, start_chunk and end_chunk being
\* the chunk objects named by start_ref and end_ref
chunks_by_layer_of(d, da, start_ref, end_ref, layer, start_chunk, end_chunk) ==
    IF get_layer_raises(d.pm, start_chunk) \/ get_layer_raises(d.pm, end_chunk)
    THEN [chunks |-> <<>>, err |-> TRUE]
    ELSE chunks_of_layer(end_ref, layer, get_layer(d.pm, end_chunk),
             chunks_by_layer_loop(d.pm, da, d.das[da].end_pos.chunks, 1, FALSE,
                 <<[k |-> get_layer(d.pm, start_chunk), v |-> <<start_ref>>]>>,
                 start_chunk, end_chunk,
                 get_layer(d.pm, start_chunk), get_layer(d.pm, end_chunk)))

\* get_chunks_for_layer: the chunk objects of the layer, or an exception;
\* da is the index of the overlay, start_ref and end_ref name its anchors
get_chunks_for_layer(d, da, start_ref, end_ref, layer) ==
    chunks_by_layer_of(d, da, start_ref, end_ref, layer,
                       Deref(d.das, start_ref), Deref(d.das, end_ref))

\* the loop of apply that re-parents the inner chunk nodes of a layer under
\* the annotation element; s = [ns, pm, err]
RECURSIVE reassign_inner_chunks(_, _, _, _, _, _, _)
reassign_inner_chunks(s, das, chunks, layer_start_chunk, layer_end_chunk, layer, anno_el) ==
    IF chunks = <<>> \/ s.err THEN s
    ELSE LET chunk == Deref(das, Head(chunks))
             rest == Tail(chunks)
         IN  IF Chunk_eq(chunk, layer_start_chunk) \/ Chunk_eq(chunk, layer_end_chunk)
             THEN reassign_inner_chunks(s, das, rest, layer_start_chunk,
                                        layer_end_chunk, layer, anno_el)
             \* parent_map[chunk.node] raises KeyError
             ELSE IF chunk.node = 0 \/ s.pm[chunk.node] = 0
             THEN [s EXCEPT !.err = TRUE]
             ELSE IF s.pm[chunk.node] = layer
                     /\ SeqIndex(s.ns[layer].children, chunk.node) # 0
             THEN reassign_inner_chunks(
                     [ns |-> MoveChild(s.ns, layer, chunk.node, anno_el),
                      pm |-> [s.pm EXCEPT ![chunk.node] = anno_el],
                      err |-> FALSE],
                     das, rest, layer_start_chunk, layer_end_chunk, layer, anno_el)
             ELSE reassign_inner_chunks(s, das, rest, layer_start_chunk,
                                        layer_end_chunk, layer, anno_el)

\* apply_layer_end that forgets parent_map[layer_end_chunk.node] = anno_el
apply_layer_end_keeps_parent(d, da, layer, layer_start_ref, layer_end_ref, layer_start_chunk, layer_end_chunk, layer_start_range, anno_tail, anno_el, moved) ==
    LET self == d.das[da]
        new_layer_start_chunk_range ==
            Range(layer_start_chunk.range.start, layer_start_range.start)
        new_layer_end_chunk_range ==
            Range(layer_end_chunk.range.start,
                  Min(layer_end_chunk.range.end, self.range.end))
        das1 == SetChunkRange(
                    SetChunkRange(d.das, layer_start_ref, new_layer_start_chunk_range),
                    layer_end_ref, new_layer_end_chunk_range)
        end_moves == moved.pm[layer_end_chunk.node] = layer
    IN  IF moved.err
        THEN [d EXCEPT !.ns = moved.ns, !.pm = moved.pm, !.err = TRUE, !.new = anno_el]
        \* parent_map[layer_end_chunk.node] raises KeyError,
        \* parent.remove(layer_end_chunk.node) raises ValueError
        ELSE IF \/ moved.pm[layer_end_chunk.node] = 0
                \/ /\ end_moves
                   /\ SeqIndex(moved.ns[layer].children, layer_end_chunk.node) = 0
        THEN [d EXCEPT !.ns = moved.ns, !.pm = moved.pm, !.das = das1,
                       !.err = TRUE, !.new = anno_el]
        ELSE [ns |-> IF end_moves
                     THEN MoveChild(moved.ns, layer, layer_end_chunk.node, anno_el)
                     ELSE moved.ns,
              pm |-> moved.pm,
              das |-> recalculate_positions(
                          das1,
                          [layer_start_chunk EXCEPT !.range = new_layer_start_chunk_range],
                          layer_start_chunk.range,
                          [layer_end_chunk EXCEPT !.range = new_layer_end_chunk_range],
                          layer_end_chunk.range,
                          Chunk(layer_start_range.start, layer_start_range.end, anno_el,
                                FALSE, FALSE),
                          IF Len(anno_tail) > 0
                          THEN Chunk(self.range.end, layer_end_chunk.range.end, anno_el,
                                     TRUE, FALSE)
                          ELSE NoChunk),
              err |-> FALSE, new |-> anno_el]

\* lines 1495-1516 of apply: the ranges of the anchors of the layer are set,
\* the node of the end chunk moves under the annotation element and the
\* trails are recalculated; moved is what the loop over the inner chunks left
apply_layer_end(d, da, layer, layer_start_ref, layer_end_ref, layer_start_chunk, layer_end_chunk, layer_start_range, anno_tail, anno_el, moved) ==
    LET self == d.das[da]
        new_layer_start_chunk_range ==
            Range(layer_start_chunk.range.start, layer_start_range.start)
        new_layer_end_chunk_range ==
            Range(layer_end_chunk.range.start,
                  Min(layer_end_chunk.range.end, self.range.end))
        das1 == SetChunkRange(
                    SetChunkRange(d.das, layer_start_ref, new_layer_start_chunk_range),
                    layer_end_ref, new_layer_end_chunk_range)
        end_moves == moved.pm[layer_end_chunk.node] = layer
    IN  IF moved.err
        THEN [d EXCEPT !.ns = moved.ns, !.pm = moved.pm, !.err = TRUE, !.new = anno_el]
        \* parent_map[layer_end_chunk.node] raises KeyError,
        \* parent.remove(layer_end_chunk.node) raises ValueError
        ELSE IF \/ moved.pm[layer_end_chunk.node] = 0
                \/ /\ end_moves
                   /\ SeqIndex(moved.ns[layer].children, layer_end_chunk.node) = 0
        THEN [d EXCEPT !.ns = moved.ns, !.pm = moved.pm, !.das = das1,
                       !.err = TRUE, !.new = anno_el]
        ELSE [ns |-> IF end_moves
                     THEN MoveChild(moved.ns, layer, layer_end_chunk.node, anno_el)
                     ELSE moved.ns,
              pm |-> IF end_moves
                     THEN [moved.pm EXCEPT ![layer_end_chunk.node] = anno_el]
                     ELSE moved.pm,
              das |-> recalculate_positions(
                          das1,
                          [layer_start_chunk EXCEPT !.range = new_layer_start_chunk_range],
                          layer_start_chunk.range,
                          [layer_end_chunk EXCEPT !.range = new_layer_end_chunk_range],
                          layer_end_chunk.range,
                          Chunk(layer_start_range.start, layer_start_range.end, anno_el,
                                FALSE, FALSE),
                          IF Len(anno_tail) > 0
                          THEN Chunk(self.range.end, layer_end_chunk.range.end, anno_el,
                                     TRUE, FALSE)
                          ELSE NoChunk),
              err |-> FALSE, new |-> anno_el]

\* lines 1473-1488 of apply: the annotation element is inserted into the
\* layer and the inner chunk nodes are re-parented; ns2 is the store with the
\* texts of the anchors cut
apply_layer_insert(d, da, layer, chunks, layer_start_chunk, layer_end_chunk, layer_start_range, anno_text, anno_tail, ns2) ==
    LET at == IF layer = 0 THEN 0
              ELSE SeqIndex(ns2[layer].children, layer_start_chunk.node)
        anno_el == Len(d.ns) + 1
    IN  \* list(layer).index(layer_start_chunk.node) raises
        IF layer = 0 \/ (layer_start_chunk.node # layer /\ at = 0)
        THEN Raise([d EXCEPT !.ns = ns2])
        ELSE apply_layer_end(d, da, layer, chunks[1], chunks[Len(chunks)],
                 layer_start_chunk, layer_end_chunk, layer_start_range, anno_tail,
                 anno_el,
                 reassign_inner_chunks(
                     [ns |-> InsertChild(
                                 NewElement(ns2, anno_text, anno_tail, d.das[da].annotation),
                                 layer,
                                 IF layer_start_chunk.node = layer THEN 0 ELSE at,
                                 anno_el),
                      pm |-> Append(d.pm, layer),
                      err |-> FALSE],
                     d.das, chunks, layer_start_chunk, layer_end_chunk, layer, anno_el))

\* lines 1443-1471 of apply: the texts are read and the texts of the anchors
\* of the layer are cut
apply_layer_texts(d, da, layer, chunks, layer_start_chunk, layer_end_chunk, layer_start_range) ==
    LET self == d.das[da]
        new_layer_start_chunk_text_or_tail ==
            get_text_up_to(d.ns, layer_start_chunk, layer_start_range.start)
        \* set non annotated text of the start chunk
        ns1 == [d.ns EXCEPT ![layer_start_chunk.node] =
                   IF layer_start_chunk.is_tail
                   THEN [@ EXCEPT !.tail = new_layer_start_chunk_text_or_tail]
                   ELSE [@ EXCEPT !.text = new_layer_start_chunk_text_or_tail]]
    IN  \* layer_end_chunk.node.tail = ... on a chunk without node
        IF layer_end_chunk.node = 0 THEN Raise([d EXCEPT !.ns = ns1])
        ELSE apply_layer_insert(d, da, layer, chunks, layer_start_chunk,
                 layer_end_chunk, layer_start_range,
                 get_text(d.ns, layer_start_chunk, layer_start_range),
                 get_text_from(d.ns, layer_end_chunk, self.range.end),
                 [ns1 EXCEPT ![layer_end_chunk.node].tail =
                     get_text_up_to(d.ns, layer_end_chunk,
                                    Min(layer_end_chunk.range.end, self.range.end))])

\* lines 1433-1441 of apply, layer_start_chunk and layer_end_chunk being the
\* first and the last chunk object of the layer
apply_layer_anchors(d, da, layer, chunks, start_chunk, layer_start_chunk, layer_end_chunk) ==
    IF chunk_string_raises(d.ns, layer_start_chunk)
       \/ chunk_string_raises(d.ns, layer_end_chunk)
    THEN Raise(d)
    \* layer_start_chunk.node.text = ... on a chunk without node
    ELSE IF layer_start_chunk.node = 0 THEN Raise(d)
    ELSE apply_layer_texts(d, da, layer, chunks, layer_start_chunk, layer_end_chunk,
             IF Chunk_eq(layer_start_chunk, start_chunk)
             THEN Range(Max(d.das[da].range.start, layer_start_chunk.range.start),
                        start_chunk.range.end)
             ELSE layer_start_chunk.range)

\* lines 1433-1516 of apply: the layer has more than one chunk
apply_layer_chunks(d, da, layer, chunks, start_chunk) ==
    apply_layer_anchors(d, da, layer, chunks, start_chunk,
                        Deref(d.das, chunks[1]), Deref(d.das, chunks[Len(chunks)]))

\* lines 1418-1432 of apply: the layer has one chunk, or more
apply_layer_of(d, da, layer, chunks, start_ref, end_ref, start_chunk, end_chunk, layer_start_chunk, layer_end_chunk) ==
    LET self == d.das[da]
    IN  IF Chunk_eq(layer_start_chunk, layer_end_chunk)
        THEN IF Chunk_eq(layer_start_chunk, start_chunk)
             THEN Chunk_apply(d, start_ref, self.annotation,
                              Range(self.range.start, start_chunk.range.end))
             ELSE IF Chunk_eq(layer_start_chunk, end_chunk)
             THEN Chunk_apply(d, end_ref, self.annotation,
                              Range(end_chunk.range.start, self.range.end))
             ELSE IF ~is_point(layer_start_chunk.range)
             THEN Chunk_apply(d, chunks[1], self.annotation,
                              Range(layer_start_chunk.range.start,
                                    layer_start_chunk.range.end))
             ELSE d
        ELSE apply_layer_chunks(d, da, layer, chunks, start_chunk)

\* line 1416 of apply: found is what get_chunks_for_layer returned
apply_layer_found(d, da, layer, start_ref, end_ref, found) ==
    IF found.err THEN Raise(d)
    \* chunks[0] of an empty list raises IndexError
    ELSE IF found.chunks = <<>> THEN Raise(d)
    ELSE apply_layer_of(d, da, layer, found.chunks, start_ref, end_ref,
             Deref(d.das, start_ref), Deref(d.das, end_ref),
             Deref(d.das, found.chunks[1]),
             Deref(d.das, found.chunks[Len(found.chunks)]))

\* lines 1413-1414 of apply: start_c and end_c are the places of the fresh
\* anchors in the trails, 0 for None
apply_layer_fresh(d, da, layer, start_c, end_c) ==
    IF start_c = 0 \/ end_c = 0 THEN Raise(d)
    ELSE apply_layer_found(d, da, layer,
             Ref(da, "start_pos", start_c), Ref(da, "end_pos", end_c),
             get_chunks_for_layer(d, da, Ref(da, "start_pos", start_c),
                                  Ref(da, "end_pos", end_c), layer))

\* the body of `for layer in layers` of apply; da is the index of the overlay
apply_layer(d, da, layer) ==
    apply_layer_fresh(d, da, layer,
                      get_max_matching_chunk(d.das[da].start_pos),
                      get_min_matching_chunk(d.das[da].end_pos))

(***************************************************************************)
(* XMLSourceDocument                                                       *)
(***************************************************************************)
\* the overlays apply builds for one annotation: one per merged range
RECURSIVE build_overlays(_, _, _)
build_overlays(ns, annotation, ranges) ==
    IF ranges = <<>> THEN <<>>
    ELSE <<DocumentAnnotation(annotation, Head(ranges),
               seek_position(ns, 1, PositionPointer(Head(ranges).start)),
               seek_position(ns, 1, PositionPointer(Head(ranges).end)))>>
         \o build_overlays(ns, annotation, Tail(ranges))

\* the first loop of apply over the annotations handed in; the annotation
\* annos[k] is named first + k
RECURSIVE build_all_overlays(_, _, _, _)
build_all_overlays(ns, annos, k, first) ==
    IF k > Len(annos) THEN <<>>
    ELSE build_overlays(ns, first + k, Range_merge_ranges(sorted(annos[k])))
         \o build_all_overlays(ns, annos, k + 1, first)

\* the length of the flat text of the document: where a pointer that never
\* locks ends
RECURSIVE TextSize(_, _)
RECURSIVE TextSizeOfAll(_, _)
TextSize(ns, node) ==
    (IF has_text_content(ns[node]) THEN Len(ns[node].text) ELSE 0)
    + TextSizeOfAll(ns, ns[node].children)
    + (IF has_text_content(ns[node]) \/ Len(ns[node].children) > 0 THEN 1 ELSE 0)
    + (IF has_tail_content(ns[node]) THEN Len(ns[node].tail) ELSE 0)

TextSizeOfAll(ns, children) ==
    IF children = <<>> THEN 0
    ELSE TextSize(ns, Head(children)) + TextSizeOfAll(ns, Tail(children))

NoStep == [kind |-> "none", da |-> 0, new |-> 0]

\* the tree, the parent map and the live overlays a call of apply is entered
\* with, and the ranges of the annotations handed to it
Entry(ns, pm, das, annos) == [ns |-> ns, pm |-> pm, das |-> das, annotations |-> annos]

NoEntry == Entry(<<>>, <<>>, <<>>, <<>>)

Step(kind, da, new) == [kind |-> kind, da |-> da, new |-> new]

DocIdle ==
    /\ nodes = <<>>
    /\ parent_map = <<>>
    /\ document_annotations = <<>>
    /\ doc_annotations = <<>>
    /\ doc_pc = "none"
    /\ apply_index = 0
    /\ layers = <<>>
    /\ calls = 0
    /\ last_step = NoStep
    /\ source = nodes
    /\ entry = NoEntry

\* XMLSourceDocument.__init__
DocInit ==
    /\ \E n \in 1..MaxNodes : \E pv \in TreeShapes(n) :
          \E texts \in [1..n -> 0..(MaxText + 1)], tails \in [1..n -> 0..(MaxText + 1)] :
             /\ tails[1] = 0
             /\ Cardinality({i \in 1..n : texts[i] = MaxText + 1})
                + Cardinality({i \in 1..n : tails[i] = MaxText + 1}) <= MaxBlank
             /\ nodes = SourceDocument(pv, texts, tails)
    /\ TextSize(nodes, 1) <= MaxFlat
    /\ parent_map = ParentMapOf(nodes)
    /\ document_annotations = <<>>
    /\ doc_annotations = <<>>
    /\ doc_pc = "idle"
    /\ apply_index = 0
    /\ layers = <<>>
    /\ calls = 0
    /\ last_step = NoStep
    /\ source = nodes
    /\ entry = NoEntry

\* the ranges an annotation handed to apply may have: within the flat text
\* or reaching one character beyond it
DocRanges == RangesWithin(0, TextSize(nodes, 1) + 1)

\* apply(annotations), lines 1551-1563: build the overlays of the call
DocApplyCall(annos) ==
    /\ document_annotations' = document_annotations \o
           build_all_overlays(nodes, annos, 1, Len(doc_annotations))
    /\ doc_annotations' = doc_annotations \o annos
    /\ doc_pc' = "apply"
    /\ apply_index' = 1
    /\ calls' = calls + 1
    /\ last_step' = Step("build", Len(document_annotations), 0)
    /\ entry' = Entry(nodes, parent_map, document_annotations, annos)
    /\ UNCHANGED <<nodes, parent_map, layers, source>>

\* the first calls of apply on a document
DocApplyBuild ==
    /\ doc_pc = "idle"
    /\ calls < MaxCalls
    /\ \E n \in 0..MaxDocAnnos :
          \E annos \in [1..n -> SeqsUpTo(DocRanges, MaxDocRanges)] :
             DocApplyCall(annos)

\* a further call of apply on a document that apply has returned from
DocApplyAgain ==
    /\ doc_pc = "idle"
    /\ calls >= MaxCalls
    /\ calls < MaxCalls + MaxAgainCalls
    /\ \E n \in 0..MaxAgainAnnos :
          \E annos \in [1..n -> SeqsUpTo(DocRanges, MaxDocRanges)] :
             DocApplyCall(annos)

\* apply called with one annotation of several ranges
DocApplyMany ==
    /\ doc_pc = "idle"
    /\ calls < MaxCalls
    /\ \E m \in 2..MaxManyRanges :
          \E annos \in [1..1 -> [1..m -> DocRanges]] :
             DocApplyCall(annos)

CurrentDoc ==
    [ns |-> nodes, pm |-> parent_map, das |-> document_annotations,
     err |-> FALSE, new |-> 0]

\* the variables after a surgery step that returned d
DocInstall(d) ==
    /\ nodes' = d.ns
    /\ parent_map' = d.pm
    /\ document_annotations' = d.das

\* document_annotation.apply, lines 1364-1409: a single-chunk overlay is
\* applied, a cross-boundary overlay gets its layers computed
DocApplyOverlay ==
    /\ doc_pc = "apply"
    /\ apply_index <= Len(document_annotations)
    /\ LET self == document_annotations[apply_index]
           start_c == get_max_matching_chunk(self.start_pos)
           end_c == get_min_matching_chunk(self.end_pos)
       IN  IF start_c = 0 \/ end_c = 0
           THEN /\ doc_pc' = "raised"
                /\ last_step' = Step("raised", apply_index, 0)
                /\ UNCHANGED <<nodes, parent_map, document_annotations, apply_index, layers>>
           ELSE IF Chunk_eq(self.start_pos.chunks[start_c], self.end_pos.chunks[end_c])
           THEN \E d \in {Chunk_apply(CurrentDoc, Ref(apply_index, "start_pos", start_c),
                                      self.annotation, self.range)} :
                    /\ DocInstall(d)
                    /\ doc_pc' = IF d.err THEN "raised" ELSE "apply"
                    /\ apply_index' = IF d.err THEN apply_index ELSE apply_index + 1
                    /\ last_step' = Step(IF d.err THEN "raised" ELSE "single",
                                         apply_index, d.new)
                    /\ UNCHANGED layers
           ELSE \E found \in {apply_layers(parent_map, self, self.start_pos.chunks[start_c],
                                           self.end_pos.chunks[end_c])} :
                    /\ doc_pc' = IF found.err THEN "raised" ELSE "layers"
                    /\ layers' = found.layers
                    /\ last_step' = Step(IF found.err THEN "raised" ELSE "layers",
                                         apply_index, 0)
                    /\ UNCHANGED <<nodes, parent_map, document_annotations, apply_index>>
    /\ UNCHANGED <<doc_annotations, calls, source, entry>>

\* one iteration of `for layer in layers`, lines 1412-1516
DocApplyLayer ==
    /\ doc_pc = "layers"
    /\ layers # <<>>
    /\ \E d \in {apply_layer(CurrentDoc, apply_index, Head(layers))} :
          /\ DocInstall(d)
          /\ doc_pc' = IF d.err THEN "raised"
                       ELSE IF Len(layers) = 1 THEN "apply" ELSE "layers"
          /\ layers' = IF d.err THEN layers ELSE Tail(layers)
          /\ apply_index' = IF ~d.err /\ Len(layers) = 1
                            THEN apply_index + 1 ELSE apply_index
          /\ last_step' = Step(IF d.err THEN "raised" ELSE "layer", apply_index, d.new)
    /\ UNCHANGED <<doc_annotations, calls, source, entry>>

\* the end of apply: every overlay of document_annotations was applied
DocApplyReturn ==
    /\ doc_pc = "apply"
    /\ apply_index > Len(document_annotations)
    /\ doc_pc' = "idle"
    /\ last_step' = Step("return", 0, 0)
    /\ UNCHANGED <<nodes, parent_map, document_annotations, doc_annotations,
                   apply_index, layers, calls, source, entry>>

(***************************************************************************)
(* TEIAnnotationReader and TEIAnnotationWriter                             *)
(* A uuid is the string of its digits, a string of an id or of an ana      *)
(* reference is a sequence of characters, a property value is a string.    *)
(* A file holds the author of its header, its tagsets (fsdDecl with their  *)
(* fsDecl), the children of <ab> in document order (a bare ptr is a seg    *)
(* with no ana reference) and the fs elements of its annotations.          *)
(***************************************************************************)
CATMA_ == <<"C", "A", "T", "M", "A", "_">>

\* str() of a colour or of a counter, and int() of such a string
Digits == <<"1", "2", "3", "4">>

str(n) == Digits[n]

int(s) == CHOOSE n \in 1..Len(Digits) : Digits[n] = s

\* list(values) of a Python set
RECURSIVE list(_)
list(values) ==
    IF values = {} THEN <<>>
    ELSE LET value == CHOOSE v \in values : TRUE
         IN  <<value>> \o list(values \ {value})

get_catma_uuid_as_str(uuid) == CATMA_ \o uuid

get_uuid_from_catma_uuid_str(catma_uuid) ==
    IF Len(catma_uuid) >= 5 /\ SubSeq(catma_uuid, 1, 5) = SubSeq(CATMA_, 1, 5)
    THEN SubSeq(catma_uuid, 7, Len(catma_uuid))
    ELSE SubSeq(catma_uuid, 3, Len(catma_uuid))

\* Python's None where a Tag is expected
NoTag == [uuid |-> <<>>, color |-> 0]

RECURSIVE get_tag(_, _)
get_tag(tagsets, uuid) ==
    IF tagsets = <<>> THEN NoTag
    ELSE IF dict_has(Head(tagsets).tags, uuid)
         THEN dict_get(Head(tagsets).tags, uuid)
         ELSE get_tag(Tail(tagsets), uuid)

\* the loop over tag_nodes: the dict tagset.tags
RECURSIVE read_tags(_, _)
read_tags(tags, tag_nodes) ==
    IF tag_nodes = <<>> THEN tags
    ELSE LET tag_uuid == get_uuid_from_catma_uuid_str(Head(tag_nodes).id)
         IN  read_tags(dict_set(tags, tag_uuid,
                                [uuid |-> tag_uuid, color |-> int(Head(tag_nodes).color)]),
                       Tail(tag_nodes))

read_tagsets(tagset_nodes) ==
    [i \in 1..Len(tagset_nodes) |->
        [uuid |-> get_uuid_from_catma_uuid_str(tagset_nodes[i].id),
         tags |-> read_tags(<<>>, tagset_nodes[i].tags)]]

\* the loop over ana.split() of read_segments
RECURSIVE read_ana(_, _, _)
read_ana(ranges_by_anno_uuid, refs, anno_range) ==
    IF refs = <<>> THEN ranges_by_anno_uuid
    ELSE LET annotation_uuid == get_uuid_from_catma_uuid_str(Tail(Head(refs)))
             seen == IF dict_has(ranges_by_anno_uuid, annotation_uuid)
                     THEN dict_get(ranges_by_anno_uuid, annotation_uuid)
                     ELSE <<>>
         IN  read_ana(dict_set(ranges_by_anno_uuid, annotation_uuid,
                               Append(seen, anno_range)),
                      Tail(refs), anno_range)

RECURSIVE read_segments(_, _)
read_segments(ranges_by_anno_uuid, segs) ==
    IF segs = <<>> THEN ranges_by_anno_uuid
    ELSE read_segments(read_ana(ranges_by_anno_uuid, Head(segs).ana, Head(segs).ptr),
                       Tail(segs))

\* Annotation.add_property for every string of one f element
RECURSIVE add_property(_, _, _)
add_property(properties, name, strings) ==
    IF strings = <<>> THEN properties
    ELSE LET values == IF dict_has(properties, name)
                       THEN dict_get(properties, name)
                       ELSE {}
         IN  add_property(dict_set(properties, name, values \cup {Head(strings)}),
                          name, Tail(strings))

\* the loop over property_nodes of read_annotations
RECURSIVE read_properties(_, _)
read_properties(properties, property_nodes) ==
    IF property_nodes = <<>> THEN properties
    ELSE read_properties(add_property(properties, Head(property_nodes).name,
                                      Head(property_nodes).strings),
                         Tail(property_nodes))

\* the loop over annotation_nodes; annos = [list, err], err stands for the
\* KeyError of ranges_by_anno_uuid[anno_uuid]
RECURSIVE read_annotations(_, _, _, _)
read_annotations(annos, annotation_nodes, ranges_by_anno_uuid, tagsets) ==
    IF annos.err \/ annotation_nodes = <<>> THEN annos
    ELSE LET node == Head(annotation_nodes)
             anno_uuid == get_uuid_from_catma_uuid_str(node.id)
         IN  IF ~dict_has(ranges_by_anno_uuid, anno_uuid)
             THEN [list |-> annos.list, err |-> TRUE]
             ELSE read_annotations(
                    [list |-> Append(annos.list,
                        [uuid |-> anno_uuid,
                         tag |-> get_tag(tagsets, get_uuid_from_catma_uuid_str(node.type)),
                         ranges |-> dict_get(ranges_by_anno_uuid, anno_uuid),
                         properties |-> read_properties(<<>>, node.f)]),
                     err |-> FALSE],
                    Tail(annotation_nodes), ranges_by_anno_uuid, tagsets)

\* the constructor of the reader on a file with ptr references of version 5
TEIAnnotationReader(file, tagsets) ==
    LET annos == read_annotations([list |-> <<>>, err |-> FALSE], file.fs,
                                  read_segments(<<>>, file.segs), tagsets)
    IN  [text_length |-> file.segs[Len(file.segs)].ptr.end,
         author |-> file.author,
         tagsets |-> tagsets,
         annotations |-> annos.list,
         err |-> annos.err]

write_tagsets(tagsets) ==
    [i \in 1..Len(tagsets) |->
        [id |-> get_catma_uuid_as_str(tagsets[i].uuid),
         tags |-> [j \in 1..Len(tagsets[i].tags) |->
                     [id |-> get_catma_uuid_as_str(tagsets[i].tags[j].v.uuid),
                      color |-> str(tagsets[i].tags[j].v.color)]]]]

as_uuid_list(annos, all_annotations) ==
    [i \in 1..Len(annos) |->
        <<"#">> \o get_catma_uuid_as_str(all_annotations[annos[i]].uuid)]

\* the loop over sorted(merged_ranges): the children of <ab>
write_segments(merged, all_annotations) ==
    LET keys == sorted(dict_keys(merged))
    IN  [i \in 1..Len(keys) |->
            [ptr |-> keys[i],
             ana |-> as_uuid_list(dict_get(merged, keys[i]), all_annotations)]]

write_annotation(anno, author) ==
    [id |-> get_catma_uuid_as_str(anno.uuid),
     type |-> get_catma_uuid_as_str(anno.tag.uuid),
     f |-> (IF dict_has(anno.properties, "catma_markupauthor") THEN <<>>
            ELSE <<[name |-> "catma_markupauthor", strings |-> <<author>>]>>)
           \o (IF dict_has(anno.properties, "catma_displaycolor") THEN <<>>
               ELSE <<[name |-> "catma_displaycolor",
                       strings |-> <<str(anno.tag.color)>>]>>)
           \o [i \in 1..Len(anno.properties) |->
                 [name |-> anno.properties[i].k,
                  strings |-> list(anno.properties[i].v)]]]

\* write_to_tei; merged = [m, err] is what merge_ranges did
write_to_tei(merged, tagsets, all_annotations, author) ==
    [file |-> [author |-> author,
               tagsets |-> write_tagsets(tagsets),
               segs |-> write_segments(merged.m, all_annotations),
               fs |-> [i \in 1..Len(all_annotations) |->
                         write_annotation(all_annotations[i], author)]],
     err |-> merged.err]

NoFile == [author |-> "", tagsets |-> <<>>, segs |-> <<>>, fs |-> <<>>]

NoReader == [text_length |-> 0, author |-> "", tagsets |-> <<>>,
             annotations |-> <<>>, err |-> FALSE]

\* the tags, the properties of an fs and the ana references of the files
TeiTags == <<[id |-> CATMA_ \o <<"a">>, color |-> "1"], [id |-> CATMA_ \o <<"b">>, color |-> "2"]>>

TeiProps ==
    {<<>>,
     <<[name |-> "catma_markupauthor", strings |-> <<"you">>],
       [name |-> "catma_displaycolor", strings |-> <<"2">>]>>,
     <<[name |-> "catma_markupauthor", strings |-> <<"me">>],
       [name |-> "catma_displaycolor", strings |-> <<"1">>],
       [name |-> "p", strings |-> <<"x", "y">>]>>}

TeiAna(n) == {ana \in SeqsUpTo(1..n, n) : \A i \in 1..(Len(ana) - 1) : ana[i] < ana[i + 1]}

TeiInit ==
    /\ \E n \in 1..MaxFs, k \in 1..MaxSegs, prefix \in {CATMA_, <<"T", "_">>} :
        \E fs \in [1..n -> [type : 1..Len(TeiTags), f : TeiProps]],
           segs \in [1..k -> [ptr : RangesWithin(0, MaxTeiLen), ana : TeiAna(n)]] :
            tei_file =
                [author |-> "me",
                 tagsets |-> <<[id |-> prefix \o <<"s">>, tags |-> TeiTags]>>,
                 segs |-> [i \in 1..k |->
                             [ptr |-> segs[i].ptr,
                              ana |-> [j \in 1..Len(segs[i].ana) |->
                                         <<"#">> \o CATMA_ \o <<str(segs[i].ana[j])>>]]],
                 fs |-> [i \in 1..n |->
                           [id |-> CATMA_ \o <<str(i)>>,
                            type |-> TeiTags[fs[i].type].id,
                            f |-> fs[i].f]]]
    /\ reader = NoReader
    /\ first_read = NoReader
    /\ tei_pc = "file"

\* TEIAnnotationReader(filename) on the file as it is now
TeiRead ==
    /\ tei_pc \in {"file", "written"}
    /\ LET r == TEIAnnotationReader(tei_file, read_tagsets(tei_file.tagsets))
       IN  /\ reader' = IF r.err THEN NoReader ELSE r
           /\ first_read' = IF tei_pc = "file" /\ ~r.err THEN r ELSE first_read
           /\ tei_pc' = IF tei_pc = "file"
                        THEN (IF r.err THEN "unreadable" ELSE "read")
                        ELSE (IF r.err THEN "raised" ELSE "reread")
    /\ UNCHANGED tei_file

\* TEIAnnotationWriter(reader.text_length, title, reader.tagsets,
\* [reader.annotations], reader.author).write_to_tei(filename)
TeiWrite ==
    /\ tei_pc = "read"
    /\ LET all_annotations == reader.annotations
           merged == merge_ranges(reader.text_length,
                                  [i \in 1..Len(all_annotations) |-> all_annotations[i].ranges],
                                  [i \in 1..Len(all_annotations) |-> i])
           w == write_to_tei(merged, reader.tagsets, all_annotations, reader.author)
       IN  /\ tei_file' = IF w.err THEN tei_file ELSE w.file
           /\ tei_pc' = IF w.err THEN "raised" ELSE "written"
    /\ UNCHANGED <<reader, first_read>>

TeiIdle ==
    /\ tei_file = NoFile
    /\ reader = NoReader
    /\ first_read = NoReader
    /\ tei_pc = "idle"

(***************************************************************************)
(* XMLSourceDocument.seek_position, call by call                           *)
(* seek_stack holds the calls of seek_position that have not returned: the *)
(* node of each call, where it stands (pc) and the child its loop is at.   *)
(***************************************************************************)
SeekFrame(node) == [node |-> node, pc |-> "text", i |-> 1]

SeekTop == seek_stack[Len(seek_stack)]

SeekReturn == SubSeq(seek_stack, 1, Len(seek_stack) - 1)

\* seek_position(self.doc.getroot(), XMLSourceDocumentPositionPointer(pos))
SeekInit ==
    /\ \E search_pos \in 0..(TextSize(nodes, 1) + 1) :
          pointer = PositionPointer(search_pos)
    /\ seek_stack = <<SeekFrame(1)>>

\* the increment by the text of parent_node and the first test of is_locked
SeekText ==
    /\ seek_stack # <<>>
    /\ SeekTop.pc = "text"
    /\ pointer' = IF has_text_content(nodes[SeekTop.node])
                  THEN increment(pointer, nodes, SeekTop.node, FALSE)
                  ELSE pointer
    /\ seek_stack' = IF pointer'.locked THEN SeekReturn
                     ELSE [seek_stack EXCEPT ![Len(seek_stack)].pc = "children"]

\* `for child_node in parent_node`: the call for the next child, and the
\* return when the pointer is locked after a child
SeekChild ==
    /\ seek_stack # <<>>
    /\ SeekTop.pc = "children"
    /\ pointer.locked \/ SeekTop.i <= Len(nodes[SeekTop.node].children)
    /\ seek_stack' =
          IF pointer.locked THEN SeekReturn
          ELSE Append([seek_stack EXCEPT ![Len(seek_stack)].i = SeekTop.i + 1],
                      SeekFrame(nodes[SeekTop.node].children[SeekTop.i]))
    /\ UNCHANGED pointer

\* the synthetic newline after the children
SeekNewline ==
    /\ seek_stack # <<>>
    /\ SeekTop.pc = "children"
    /\ ~pointer.locked
    /\ SeekTop.i > Len(nodes[SeekTop.node].children)
    /\ pointer' = IF \/ has_text_content(nodes[SeekTop.node])
                     \/ Len(nodes[SeekTop.node].children) > 0
                  THEN increment_by_newline(pointer)
                  ELSE pointer
    /\ seek_stack' = [seek_stack EXCEPT ![Len(seek_stack)].pc = "tail"]

\* the increment by the tail of parent_node and the return
SeekTail ==
    /\ seek_stack # <<>>
    /\ SeekTop.pc = "tail"
    /\ pointer' = IF has_tail_content(nodes[SeekTop.node])
                  THEN increment(pointer, nodes, SeekTop.node, TRUE)
                  ELSE pointer
    /\ seek_stack' = SeekReturn

SeekIdle ==
    /\ pointer = PositionPointer(0)
    /\ seek_stack = <<>>

(***************************************************************************)
(* hotcorefde.py: class Coref and HotCorefDeTokenHandler                   *)
(* A word and a value of the coreference column are sequences of           *)
(* characters; self.text is None or the list of the words seen; a Coref    *)
(* and an annotation are records; opencorefs is a dict from an index to    *)
(* the list of its open Corefs.                                            *)
(***************************************************************************)
\* self.text is None
NoText == << <<>> >>

\* the attributes an instance of catma.Annotation has: those __init__ sets
\* and the methods of the class
AnnotationAttributes ==
    {"uuid", "tag", "properties", "ranges", "__init__", "__repr__", "add_property"}

\* Coref.__init__: PATTERN.match(value) is None when no digit follows the
\* optional "(" at the start of value, and .group of None raises
\* AttributeError; the index of a value is read with int()
Coref(value, absent_token_value) ==
    LET openpar == value # <<>> /\ Head(value) = "("
        rest == IF openpar THEN Tail(value) ELSE value
        matched == rest # <<>> /\ InSeq(Digits, Head(rest))
        isset == value # absent_token_value
    IN  IF isset /\ ~matched
        THEN [err |-> TRUE, isset |-> isset, isopened |-> FALSE, isclosed |-> FALSE,
              index |-> -1, startidx |-> -1, endidx |-> -1]
        ELSE [err |-> FALSE, isset |-> isset,
              isopened |-> isset /\ openpar,
              isclosed |-> isset /\ Len(rest) > 1 /\ rest[2] = ")",
              index |-> IF isset THEN int(Head(rest)) ELSE -1,
              startidx |-> -1, endidx |-> -1]

\* BaseTokenHandler.get_token_range with find_word for a text that is None
\* or a list: the word joins self.text, after a separator when it is not
\* the first
get_token_range(self, word) ==
    LET pos == IF self.text = NoText THEN self.current_text_pos
               ELSE self.current_text_pos + 1
    IN  [self |-> [self EXCEPT !.text = IF self.text = NoText THEN <<word>>
                                        ELSE Append(self.text, word),
                               !.current_text_pos = pos],
         range |-> Range(pos, pos + Len(word))]

\* add_coref_anno: an annotation with the range and the index of the coref
add_coref_anno(self, coref) ==
    [self EXCEPT !.annotations =
        Append(@, [tag |-> "coref", range |-> Range(coref.startidx, coref.endidx),
                   index |-> coref.index])]

\* the loop of token over the values of column 13; s = [self, out, err],
\* out being what was printed and err the exception that ended the loop
RECURSIVE token_corefs(_, _, _, _)
token_corefs(s, entries, tokenrange, absent_token_value) ==
    IF entries = <<>> \/ s.err # "" THEN s
    ELSE LET coref == Coref(Head(entries), absent_token_value)
             self == s.self
             open == dict_get(self.opencorefs, coref.index)
         IN  IF coref.err THEN [s EXCEPT !.err = "AttributeError"]
             ELSE IF ~coref.isset
             THEN token_corefs(s, Tail(entries), tokenrange, absent_token_value)
             ELSE IF coref.isclosed /\ coref.isopened
             THEN token_corefs(
                     [s EXCEPT !.self = add_coref_anno(self,
                                  [coref EXCEPT !.startidx = tokenrange.start,
                                                !.endidx = tokenrange.end])],
                     Tail(entries), tokenrange, absent_token_value)
             ELSE IF coref.isopened
             THEN token_corefs(
                     [s EXCEPT !.self.opencorefs =
                         dict_set(self.opencorefs, coref.index,
                             Append(IF dict_has(self.opencorefs, coref.index)
                                    THEN open ELSE <<>>,
                                    [coref EXCEPT !.startidx = tokenrange.start]))],
                     Tail(entries), tokenrange, absent_token_value)
             ELSE IF ~coref.isclosed
             THEN token_corefs(s, Tail(entries), tokenrange, absent_token_value)
             \* self.opencorefs[coref.index] raises KeyError
             ELSE IF ~dict_has(self.opencorefs, coref.index)
             THEN [s EXCEPT !.err = "KeyError"]
             \* pop of an empty list raises IndexError, which is caught
             ELSE IF open = <<>>
             THEN token_corefs([s EXCEPT !.out = Append(@, coref.index)],
                               Tail(entries), tokenrange, absent_token_value)
             ELSE token_corefs(
                     [s EXCEPT !.self =
                         add_coref_anno(
                             [self EXCEPT !.opencorefs =
                                 dict_set(@, coref.index, SubSeq(open, 1, Len(open) - 1))],
                             [open[Len(open)] EXCEPT !.endidx = tokenrange.end])],
                     Tail(entries), tokenrange, absent_token_value)

\* HotCorefDeTokenHandler.token for a line with the given word and the
\* given values of column 13: genus_anno.addproperty is looked up first
token(self, word, entries, absent_token_value) ==
    LET found == get_token_range(self, word)
        annotated == [found.self EXCEPT !.annotations =
                         @ \o <<[tag |-> "genus", range |-> found.range, index |-> -1],
                                [tag |-> "numerus", range |-> found.range, index |-> -1]>>]
        done == token_corefs([self |-> annotated, out |-> <<>>, err |-> ""],
                             entries, found.range, absent_token_value)
    IN  IF "addproperty" \notin AnnotationAttributes
        THEN [self |-> found.self, out |-> <<>>, err |-> "AttributeError"]
        ELSE IF done.err # "" THEN done
        ELSE [done EXCEPT !.self.current_text_pos = found.range.end]

\* the words of a token line
Words == UNION {[1..n -> {"a"}] : n \in 1..MaxWord}

\* the values of the coreference column: absent, opening, closing, complete
CorefValues ==
    {<<"-">>} \cup
    UNION {{<<"(", Digits[i]>>, <<Digits[i], ")">>, <<"(", Digits[i], ")">>} :
              i \in 1..MaxIndex}

\* HotCorefDeTokenHandler.__init__ with text=None
HandlerInit ==
    /\ handler = [text |-> NoText, current_text_pos |-> 0,
                  annotations |-> <<>>, opencorefs |-> <<>>]
    /\ stdout = <<>>
    /\ token_line = [word |-> <<>>, entries |-> <<>>]
    /\ token_pc = "ready"

\* a call of token by the parser, which may go on with the next line after
\* a call that raised
HandlerToken ==
    /\ handler.text = NoText \/ Len(handler.text) < MaxLines
    /\ \E word \in Words : \E n \in 1..MaxEntries : \E entries \in [1..n -> CorefValues] :
          \E done \in {token(handler, word, entries, <<"-">>)} :
              /\ handler' = done.self
              /\ token_line' = [word |-> word, entries |-> entries]
              /\ stdout' = stdout \o done.out
              /\ token_pc' = IF done.err = "" THEN "returned" ELSE done.err

HandlerIdle == HandlerInit

(***************************************************************************)
(* Specifications                                                          *)
(***************************************************************************)
MergeIdle ==
    /\ text_length = 0
    /\ annotations = <<>>
    /\ counter = 0
    /\ merged_ranges = <<>>
    /\ merge_pc = "idle"

RangeIdle ==
    /\ ra = None
    /\ rb = None
    /\ rop = "idle"
    /\ rres = None

InitRange == RangeInit /\ MergeIdle /\ DocIdle /\ TeiIdle /\ SeekIdle /\ HandlerIdle
NextRange ==
    \/ ApplyOverlap /\ UNCHANGED <<merge_vars, doc_vars, tei_vars, seek_vars, token_vars>>
    \/ ApplyDisjoint /\ UNCHANGED <<merge_vars, doc_vars, tei_vars, seek_vars, token_vars>>
    \/ ApplyCompare /\ UNCHANGED <<merge_vars, doc_vars, tei_vars, seek_vars, token_vars>>
SpecRange == InitRange /\ [][NextRange]_vars

InitMerge == MergeInit /\ RangeIdle /\ DocIdle /\ TeiIdle /\ SeekIdle /\ HandlerIdle
NextMerge ==
    \/ MergeAnno /\ UNCHANGED <<range_vars, doc_vars, tei_vars, seek_vars, token_vars>>
    \/ MergeReturn /\ UNCHANGED <<range_vars, doc_vars, tei_vars, seek_vars, token_vars>>
SpecMerge == InitMerge /\ [][NextMerge]_vars

InitDoc == DocInit /\ RangeIdle /\ MergeIdle /\ TeiIdle /\ SeekIdle /\ HandlerIdle
NextDoc ==
    \/ DocApplyBuild /\ UNCHANGED <<range_vars, merge_vars, tei_vars, seek_vars, token_vars>>
    \/ DocApplyOverlay /\ UNCHANGED <<range_vars, merge_vars, tei_vars, seek_vars, token_vars>>
    \/ DocApplyLayer /\ UNCHANGED <<range_vars, merge_vars, tei_vars, seek_vars, token_vars>>
    \/ DocApplyReturn /\ UNCHANGED <<range_vars, merge_vars, tei_vars, seek_vars, token_vars>>
SpecDoc == InitDoc /\ [][NextDoc]_vars

\* apply called again on a document: the documents are smaller
InitDocAgain ==
    /\ InitDoc
    /\ Len(nodes) <= MaxAgainNodes
    /\ TextSize(nodes, 1) <= MaxAgainFlat
NextDocAgain ==
    \/ DocApplyBuild /\ UNCHANGED <<range_vars, merge_vars, tei_vars, seek_vars, token_vars>>
    \/ DocApplyAgain /\ UNCHANGED <<range_vars, merge_vars, tei_vars, seek_vars, token_vars>>
    \/ DocApplyOverlay /\ UNCHANGED <<range_vars, merge_vars, tei_vars, seek_vars, token_vars>>
    \/ DocApplyLayer /\ UNCHANGED <<range_vars, merge_vars, tei_vars, seek_vars, token_vars>>
    \/ DocApplyReturn /\ UNCHANGED <<range_vars, merge_vars, tei_vars, seek_vars, token_vars>>
SpecDocAgain == InitDocAgain /\ [][NextDocAgain]_vars

\* apply called with an annotation of several ranges, on the smaller documents
NextDocMany ==
    \/ DocApplyMany /\ UNCHANGED <<range_vars, merge_vars, tei_vars, seek_vars, token_vars>>
    \/ DocApplyOverlay /\ UNCHANGED <<range_vars, merge_vars, tei_vars, seek_vars, token_vars>>
    \/ DocApplyLayer /\ UNCHANGED <<range_vars, merge_vars, tei_vars, seek_vars, token_vars>>
    \/ DocApplyReturn /\ UNCHANGED <<range_vars, merge_vars, tei_vars, seek_vars, token_vars>>
SpecDocMany == InitDocAgain /\ [][NextDocMany]_vars

\* a file is read, written from what was read and read again
InitTei == TeiInit /\ RangeIdle /\ MergeIdle /\ DocIdle /\ SeekIdle /\ HandlerIdle
NextTei ==
    \/ TeiRead /\ UNCHANGED <<range_vars, merge_vars, doc_vars, seek_vars, token_vars>>
    \/ TeiWrite /\ UNCHANGED <<range_vars, merge_vars, doc_vars, seek_vars, token_vars>>
SpecTei == InitTei /\ [][NextTei]_vars

\* one pointer is walked over a source document
InitSeek == DocInit /\ RangeIdle /\ MergeIdle /\ TeiIdle /\ SeekInit /\ HandlerIdle
NextSeek ==
    \/ SeekText /\ UNCHANGED <<range_vars, merge_vars, doc_vars, tei_vars, token_vars>>
    \/ SeekChild /\ UNCHANGED <<range_vars, merge_vars, doc_vars, tei_vars, token_vars>>
    \/ SeekNewline /\ UNCHANGED <<range_vars, merge_vars, doc_vars, tei_vars, token_vars>>
    \/ SeekTail /\ UNCHANGED <<range_vars, merge_vars, doc_vars, tei_vars, token_vars>>
SpecSeek == InitSeek /\ [][NextSeek]_vars

\* the parser hands token lines to one HotCorefDeTokenHandler
InitHandler == HandlerInit /\ RangeIdle /\ MergeIdle /\ DocIdle /\ TeiIdle /\ SeekIdle
NextHandler ==
    \/ HandlerToken /\ UNCHANGED <<range_vars, merge_vars, doc_vars, tei_vars, seek_vars>>
SpecHandler == InitHandler /\ [][NextHandler]_vars

(***************************************************************************)
(* Properties of the Range algebra                                         *)
(***************************************************************************)
Elems(seq) == {seq[i] : i \in 1..Len(seq)}

\* C5: get_overlapping_range is symmetric, is None exactly when
\* a.end <= b.start or b.end <= a.start, and otherwise is the range
\* [max(a.start, b.start), min(a.end, b.end)).
OverlapSymmetricIntersection ==
    rop = "overlap" =>
        /\ rres.ab = rres.ba
        /\ (rres.ab = None) <=> (ra.end <= rb.start \/ rb.end <= ra.start)
        /\ rres.ab # None =>
              rres.ab = Range(Max(ra.start, rb.start), Min(ra.end, rb.end))

OverlapWitness ==
    /\ rop = "overlap"
    /\ rres.ab # None
    /\ rres.ab # ra
    /\ rres.ab # rb

\* C6: every range of a.get_disjoint_ranges(b) is a sub-range of a disjoint
\* from a.get_overlapping_range(b), and the returned ranges together with
\* the overlap (if any) cover exactly a.
DisjointRemainderCoversSelf ==
    rop = "disjoint" =>
        /\ \A r \in Elems(rres.disjoint) :
              /\ r.start <= r.end
              /\ is_in_between(r, ra)
              /\ rres.overlap # None => Chars(r) \cap Chars(rres.overlap) = {}
        /\ CharsOfSeq(rres.disjoint)
              \cup (IF rres.overlap # None THEN Chars(rres.overlap) ELSE {})
           = Chars(ra)

\* C7: get_disjoint_ranges never returns an empty range.
DisjointRemainderNeverEmpty ==
    rop = "disjoint" => \A r \in Elems(rres.disjoint) : r.start < r.end

\* C8: the comparison operators of Range all agree with the lexicographic
\* order on (start, end).
ComparisonsLexicographic ==
    rop = "compare" =>
        /\ rres.eq = (ra = rb)
        /\ rres.lt = LexLt(ra, rb)
        /\ rres.le = LexLe(ra, rb)
        /\ rres.gt = LexLt(rb, ra)
        /\ rres.ge = LexLe(rb, ra)
        /\ rres.le = (rres.lt \/ rres.eq)

(***************************************************************************)
(* Properties of TEIAnnotationWriter.merge_ranges                          *)
(***************************************************************************)
Keys(d) == {d[i].k : i \in 1..Len(d)}

Boundaries(d) == {k.start : k \in Keys(d)} \cup {k.end : k \in Keys(d)}

\* the set of pairs (key range, set of annotations listed under the key)
PairSet(d) == {<<d[i].k, Elems(d[i].v)>> : i \in 1..Len(d)}

\* C1: after each annotation has been processed, and in the returned
\* mapping, the keys are pairwise non-overlapping ranges whose union is
\* exactly [0, text_length).
MergeKeysPartition ==
    merge_pc \in {"loop", "returned"} =>
        /\ \A i, j \in 1..Len(merged_ranges) :
              i # j =>
                 /\ merged_ranges[i].k # merged_ranges[j].k
                 /\ Chars(merged_ranges[i].k) \cap Chars(merged_ranges[j].k) = {}
                 /\ get_overlapping_range(merged_ranges[i].k, merged_ranges[j].k) = None
        /\ \A k \in Keys(merged_ranges) : 0 <= k.start /\ k.start <= k.end
        /\ UNION {Chars(k) : k \in Keys(merged_ranges)} = 0..(text_length - 1)

MergeKeysPartitionWitness ==
    /\ merge_pc = "returned"
    /\ counter = 2
    /\ Len(merged_ranges) >= 4

\* C2: in the returned mapping an annotation is listed under a key exactly
\* when the key lies inside one of the annotation's ranges.
MergeListsCoveringAnnotations ==
    merge_pc = "returned" =>
        \A i \in 1..Len(merged_ranges) : \A a \in 1..Len(annotations) :
            (a \in Elems(merged_ranges[i].v))
            <=> (\E r \in Elems(annotations[a]) : is_in_between(merged_ranges[i].k, r))

\* C3: running merge_ranges on any permutation of the annotation list yields
\* the same set of pairs (key range, set of annotations).
MergeOrderIndependent ==
    merge_pc = "returned" =>
        \A order \in Perms(1..Len(annotations)) :
            LET other == merge_ranges(text_length, annotations, order)
            IN  /\ ~other.err
                /\ PairSet(other.m) = PairSet(merged_ranges)

\* C4: processing an annotation whose range endpoints all coincide with
\* boundaries of the current keys leaves the set of keys unchanged, appends
\* the annotation to the list of every key inside its ranges and leaves the
\* lists of all other keys unchanged.
IsPrefix(s, t) == Len(s) <= Len(t) /\ SubSeq(t, 1, Len(s)) = s

MergeStableOnBoundaries ==
    [][(/\ MergeAnno
        /\ \A r \in Elems(annotations[counter + 1]) :
              {r.start, r.end} \subseteq Boundaries(merged_ranges))
       => /\ merge_pc' = "loop"
          /\ Keys(merged_ranges') = Keys(merged_ranges)
          /\ \A k \in Keys(merged_ranges) :
                LET old == dict_get(merged_ranges, k)
                    new == dict_get(merged_ranges', k)
                IN  IF \E r \in Elems(annotations[counter + 1]) : is_in_between(k, r)
                    THEN /\ IsPrefix(old, new)
                         /\ Len(new) > Len(old)
                         /\ \A n \in (Len(old) + 1)..Len(new) : new[n] = counter + 1
                    ELSE new = old]_vars

MergeNeverRaises == merge_pc # "raised"

(***************************************************************************)
(* Properties of seek_position                                             *)
(***************************************************************************)
\* the length of a chunk: the width of its range
ChunkLength(c) == c.range.end - c.range.start

RECURSIVE SumOfLengths(_)
SumOfLengths(chunks) ==
    IF chunks = <<>> THEN 0
    ELSE ChunkLength(Head(chunks)) + SumOfLengths(Tail(chunks))

\* the trail of a pointer partitions [0, pos): what C9 says of a pointer
\* that seek_position left unlocked
TrailPartitionsText(ns, p) ==
    /\ p.chunks # <<>> => p.chunks[1].range.start = 0
    /\ \A i \in 2..Len(p.chunks) :
          /\ p.chunks[i].range.start = p.chunks[i - 1].range.end
          /\ p.chunks[i].range.start > p.chunks[i - 1].range.start
    /\ \A i \in 1..Len(p.chunks) :
          /\ ChunkLength(p.chunks[i]) >= 1
          /\ IF p.chunks[i].is_newline
             THEN ChunkLength(p.chunks[i]) = 1
             ELSE ChunkLength(p.chunks[i]) = Len(chunk_string(ns, p.chunks[i]))
    /\ p.pos = SumOfLengths(p.chunks)

\* the pointers seek_position has just filled: those of the overlays the
\* call of apply has built, before it applies the first overlay; last_step.da
\* is the number of overlays the document had before the call
FreshPointers ==
    IF last_step.kind # "build" THEN {}
    ELSE {document_annotations[i].start_pos :
             i \in (last_step.da + 1)..Len(document_annotations)}
         \cup {document_annotations[i].end_pos :
                   i \in (last_step.da + 1)..Len(document_annotations)}

\* C9: the chunk sequence seek_position records for a pointer that never
\* locks starts at offset 0, is strictly increasing without gaps or overlaps,
\* every chunk is at least one character long (a text or tail chunk as long
\* as its string, a synthetic newline of length 1), and the final pos of the
\* pointer is the sum of the chunk lengths
UnlockedTrailPartitionsText ==
    \A p \in FreshPointers : ~p.locked => TrailPartitionsText(nodes, p)

\* an unlocked pointer over a text chunk of two characters or more, a tail
\* chunk and a synthetic newline
UnlockedTrailWitness ==
    \E p \in FreshPointers :
        /\ ~p.locked
        /\ Len(p.chunks) >= 3
        /\ \E i \in 1..Len(p.chunks) : p.chunks[i].is_tail
        /\ \E i \in 1..Len(p.chunks) : p.chunks[i].is_newline
        /\ \E i \in 1..Len(p.chunks) : ChunkLength(p.chunks[i]) >= 2

(***************************************************************************)
(* Properties of the tree under surgery                                    *)
(***************************************************************************)
\* how often element k occurs in the child lists of the document
Occurrences(ns, k) ==
    Cardinality({qi \in (1..Len(ns)) \X (1..Len(ns)) :
                    /\ qi[2] <= Len(ns[qi[1]].children)
                    /\ ns[qi[1]].children[qi[2]] = k})

\* the elements reached from the elements of S by following child lists
RECURSIVE ReachableFrom(_, _, _)
ReachableFrom(ns, S, fuel) ==
    IF fuel = 0 THEN S
    ELSE ReachableFrom(ns,
             S \cup UNION {Elems(ns[q].children) : q \in S}, fuel - 1)

\* the proper descendants of element k
DescendantsOf(ns, k) == ReachableFrom(ns, Elems(ns[k].children), Len(ns))

WellFormedTree(ns) ==
    /\ Occurrences(ns, 1) = 0
    /\ \A k \in 2..Len(ns) : Occurrences(ns, k) = 1
    /\ \A k \in 1..Len(ns) : k \notin DescendantsOf(ns, k)
    /\ \A k \in 1..Len(ns) :
          ns[k].anno = 0 => k \in ReachableFrom(ns, {1}, Len(ns))

\* C10: in every state reached while apply applies annotations, after each
\* single-chunk split and each layer's surgery, the document is a well-formed
\* tree: every element but the root is a child of exactly one element and
\* occurs once in its child list, no element is its own ancestor, and every
\* element of the source document is reachable from the root
TreeStaysWellFormed == WellFormedTree(nodes)

\* the surgery of a layer has moved an element of the source document under
\* the annotation element it inserted
TreeSurgeryWitness ==
    /\ last_step.kind = "layer"
    /\ last_step.new # 0
    /\ \E k \in 2..Len(nodes) :
          /\ nodes[k].anno = 0
          /\ SeqIndex(nodes[last_step.new].children, k) # 0
    /\ WellFormedTree(nodes)

(***************************************************************************)
(* Properties of the projection                                            *)
(***************************************************************************)
\* the flat text of the subtree of node, by the chunking rule of
\* seek_position: the text, the children, a synthetic newline, the tail
RECURSIVE FlatText(_, _)
RECURSIVE FlatTextOfAll(_, _)
FlatText(ns, node) ==
    (IF has_text_content(ns[node]) THEN ns[node].text ELSE <<>>)
    \o FlatTextOfAll(ns, ns[node].children)
    \o (IF has_text_content(ns[node]) \/ Len(ns[node].children) > 0 THEN <<NL>> ELSE <<>>)
    \o (IF has_tail_content(ns[node]) THEN ns[node].tail ELSE <<>>)

FlatTextOfAll(ns, children) ==
    IF children = <<>> THEN <<>>
    ELSE FlatText(ns, Head(children)) \o FlatTextOfAll(ns, Tail(children))

\* every range handed to apply lies within [0, L), L the length of the flat
\* text of the source document
RangesInsideText ==
    \A i \in 1..Len(doc_annotations) : \A j \in 1..Len(doc_annotations[i]) :
        doc_annotations[i][j].end <= TextSize(source, 1)

\* apply has returned
Applied == doc_pc = "idle" /\ calls > 0

\* C11: after apply has applied annotations whose ranges lie within [0, L),
\* the flat text of the mutated tree is the flat text of the source document:
\* the same length and the same character at every offset
FlatTextPreserved ==
    (Applied /\ RangesInsideText) => FlatText(nodes, 1) = FlatText(source, 1)

\* the characters of a string, none for None
StrChars(s) == IF s = NoneStr THEN {} ELSE {s[i] : i \in 1..Len(s)}

\* the characters inside element k: its text and the texts and tails of
\* the elements below it
RECURSIVE CharsInside(_, _, _)
CharsInside(ns, k, fuel) ==
    IF fuel = 0 THEN {}
    ELSE StrChars(ns[k].text)
         \cup UNION {CharsInside(ns, ns[k].children[i], fuel - 1) \cup StrChars(ns[ns[k].children[i]].tail) :
                       i \in 1..Len(ns[k].children)}

\* the characters of the source document inside an element that carries the
\* annotationId of annotation a
WrappedBy(a) ==
    UNION {CharsInside(nodes, k, Len(nodes)) : k \in {j \in ReachableFrom(nodes, {1}, Len(nodes)) : nodes[j].anno = a}}
    \cap StrChars(FlatText(source, 1))

\* the text and tail characters of the source document at the offsets of r
CoveredBy(r) ==
    {FlatText(source, 1)[o + 1] : o \in r.start..(r.end - 1)} \ {NL}

\* the characters covered by the overlays of annotation a
CoveredByOverlaysOf(a) ==
    UNION {CoveredBy(document_annotations[i].range) : i \in {j \in 1..Len(document_annotations) : document_annotations[j].annotation = a}}

\* C12: when apply has applied overlays with ranges within [0, L), the
\* characters of the source document inside the elements that carry the
\* annotationId of an annotation are exactly the text and tail characters at
\* the offsets of its overlay ranges
OverlayWrapsItsRange ==
    (Applied /\ RangesInsideText) =>
        \A a \in 1..Len(doc_annotations) : WrappedBy(a) = CoveredByOverlaysOf(a)

\* the current or last call of apply was handed no range at all
EmptyCall ==
    calls > 0 /\ \A i \in 1..Len(entry.annotations) : entry.annotations[i] = <<>>

\* C13: a call of apply with an empty annotation list, or with annotations
\* that have no ranges, leaves the tree, the parent map and the live overlay
\* list as they were when the call was entered
NoRangesNoChange ==
    EmptyCall =>
        /\ nodes = entry.ns
        /\ parent_map = entry.pm
        /\ document_annotations = entry.das

\* the chunks of the flat text of the source document: the trail of a pointer
\* that never locks
SourceChunks ==
    seek_position(source, 1, PositionPointer(TextSize(source, 1) + 1)).chunks

\* every range handed to apply lies within the text or the tail of a single
\* element of the source document
RangesWithinOneChunk ==
    \A i \in 1..Len(doc_annotations) : \A j \in 1..Len(doc_annotations[i]) :
        \E c \in 1..Len(SourceChunks) :
            /\ ~SourceChunks[c].is_newline
            /\ SourceChunks[c].range.start <= doc_annotations[i][j].start
            /\ doc_annotations[i][j].end <= SourceChunks[c].range.end

\* the elements in the tree
InTree(ns) == ReachableFrom(ns, {1}, Len(ns))

\* C14: if every range lies within the text or the tail of a single element
\* of the source document, no step of apply removes an element that is in the
\* tree from its parent or gives it another parent
ContainedRangesMoveNothing ==
    [][RangesWithinOneChunk =>
          \A k \in InTree(nodes) : ParentMapOf(nodes')[k] = ParentMapOf(nodes)[k]]_vars

\* the overlay apply is about to apply, and its two anchors
NextOverlay == document_annotations[apply_index]

StartAnchor == NextOverlay.start_pos.chunks[get_max_matching_chunk(NextOverlay.start_pos)]

EndAnchor == NextOverlay.end_pos.chunks[get_min_matching_chunk(NextOverlay.end_pos)]

\* apply is about to apply an overlay whose anchors are the same chunk C,
\* and the range R of the overlay lies within the range of C
SingleChunkCase ==
    /\ doc_pc = "apply"
    /\ apply_index <= Len(document_annotations)
    /\ get_max_matching_chunk(NextOverlay.start_pos) # 0
    /\ get_min_matching_chunk(NextOverlay.end_pos) # 0
    /\ Chunk_eq(StartAnchor, EndAnchor)
    /\ StartAnchor.range.start <= NextOverlay.range.start
    /\ NextOverlay.range.start <= NextOverlay.range.end
    /\ NextOverlay.range.end <= StartAnchor.range.end

\* a tail that is None reads as the empty string
TailOf(el) == IF el.tail = NoneStr THEN <<>> ELSE el.tail

\* the tree ns1 is the tree ns with the string t of chunk C cut at the range
\* R and a new element for annotation a holding the rest
SplitAt(ns, ns1, C, R, a) ==
    LET t == chunk_string(ns, C)
        X == Len(ns) + 1
    IN  /\ Len(ns1) = X
        /\ chunk_string(ns1, C) = PySlice(t, 0, R.start - C.range.start)
        /\ ns1[X].anno = a
        /\ ns1[X].text = PySlice(t, R.start - C.range.start, R.end - C.range.start)
        /\ TailOf(ns1[X]) = PySliceFrom(t, R.end - C.range.start)
        /\ IF C.is_tail
           THEN \E q \in 1..Len(ns) : \E i \in 1..Len(ns1[q].children) :
                   /\ ns1[q].children[i] = C.node
                   /\ i + 1 <= Len(ns1[q].children)
                   /\ ns1[q].children[i + 1] = X
           ELSE /\ ns1[C.node].children # <<>>
                /\ ns1[C.node].children[1] = X

\* C15: when the start and the end anchor of an overlay are the same chunk C
\* with string t and range [cs, ce) and cs <= R.start <= R.end <= ce, the
\* step leaves t[0 : R.start-cs] in the owner of C and a new annotation
\* element with text t[R.start-cs : R.end-cs] and tail t[R.end-cs :], which
\* is child 0 of C.node for a text chunk and the sibling right after C.node
\* for a tail chunk
SingleChunkSplits ==
    [][SingleChunkCase =>
          /\ last_step'.kind = "single"
          /\ SplitAt(nodes, nodes', StartAnchor, NextOverlay.range, NextOverlay.annotation)]_vars

\* a single-chunk overlay has cut the tail of an element in two: the new
\* element has text and a tail and follows that element
SingleChunkWitness ==
    /\ last_step.kind = "single"
    /\ nodes[last_step.new].text # <<>>
    /\ TailOf(nodes[last_step.new]) # <<>>
    /\ \E q \in 1..Len(nodes) : \E i \in 2..Len(nodes[q].children) :
          /\ nodes[q].children[i] = last_step.new
          /\ nodes[nodes[q].children[i - 1]].anno = 0
          /\ nodes[nodes[q].children[i - 1]].tail = <<>>

\* apply is about to apply the next layer of a cross-boundary overlay
LayerCase == doc_pc = "layers" /\ layers # <<>>

\* the chunks of the next layer, as get_chunks_for_layer returns them
NextLayerChunks ==
    get_chunks_for_layer(CurrentDoc, apply_index,
        Ref(apply_index, "start_pos", get_max_matching_chunk(NextOverlay.start_pos)),
        Ref(apply_index, "end_pos", get_min_matching_chunk(NextOverlay.end_pos)),
        Head(layers))

\* the single chunk of the next layer is an intermediate chunk with a point
\* range: neither the start nor the end anchor of the overlay
LayerIsSkipped ==
    /\ get_max_matching_chunk(NextOverlay.start_pos) # 0
    /\ get_min_matching_chunk(NextOverlay.end_pos) # 0
    /\ ~NextLayerChunks.err
    /\ NextLayerChunks.chunks # <<>>
    /\ LET first == Deref(document_annotations, NextLayerChunks.chunks[1])
           last == Deref(document_annotations,
                         NextLayerChunks.chunks[Len(NextLayerChunks.chunks)])
       IN  /\ Chunk_eq(first, last)
           /\ ~Chunk_eq(first, StartAnchor)
           /\ ~Chunk_eq(first, EndAnchor)
           /\ is_point(first.range)

\* the step has put exactly one new element into the tree, and it carries
\* annotation a
InsertsOneElementOf(a) ==
    /\ Len(nodes') = Len(nodes) + 1
    /\ nodes'[Len(nodes')].anno = a
    /\ Len(nodes') \in InTree(nodes')

\* C16: for every layer of the layer sequence of a cross-boundary overlay the
\* projector inserts one element that carries the annotation of the overlay;
\* it inserts none only for a layer whose single chunk is an intermediate
\* chunk with a point range
LayerInsertsOneElement ==
    [][LayerCase =>
          /\ last_step'.kind = "layer"
          /\ IF LayerIsSkipped THEN Len(nodes') = Len(nodes)
             ELSE InsertsOneElementOf(NextOverlay.annotation)]_vars

\* the range reaches beyond the flat text of the source document
ExtendsOutside(r) == r.end > TextSize(source, 1)

\* C17: an overlay whose range reaches beyond the flat text never makes
\* apply raise: its end pointer, and its start pointer when the start lies
\* beyond the text too, does not lock, both anchor selectors return a chunk
\* and the application of the overlay does not end with an exception
OutOfBoundsBestEffort ==
    \A i \in 1..Len(document_annotations) :
        ExtendsOutside(document_annotations[i].range) =>
            /\ (last_step.kind = "build" /\ i > last_step.da) =>
                  /\ ~document_annotations[i].end_pos.locked
                  /\ document_annotations[i].range.start > TextSize(source, 1) =>
                        ~document_annotations[i].start_pos.locked
                  /\ get_max_matching_chunk(document_annotations[i].start_pos) # 0
                  /\ get_min_matching_chunk(document_annotations[i].end_pos) # 0
            /\ ~(doc_pc = "raised" /\ last_step.da = i)

\* apply has stopped: it has returned or it has raised
Stopped == doc_pc = "raised" \/ Applied

\* a layer of the overlay that is being applied has been wrapped already
SomeLayerWrapped ==
    doc_pc = "layers" /\ last_step.kind = "layer" /\ last_step.new # 0

\* C18: whenever apply stops, by returning or by an exception, the tree is
\* well-formed and every overlay is applied completely or not at all: the
\* step that raises leaves the tree and the parent map as they were, and no
\* layer of the overlay it belongs to has been wrapped before
AppliedAtomically ==
    /\ [](Stopped => WellFormedTree(nodes))
    /\ [][doc_pc' = "raised" =>
             /\ nodes' = nodes
             /\ parent_map' = parent_map
             /\ ~SomeLayerWrapped]_vars

(***************************************************************************)
(* Properties of the TEI round trip                                        *)
(***************************************************************************)
\* C19: a collection that TEIAnnotationReader reads, written by
\* TEIAnnotationWriter and read again, comes back the same: the writing and
\* the second reading do not raise, the tagsets have the same uuids and every
\* annotation has the same uuid, tag, list of ranges and property values.
PropertyValues(anno) == {<<anno.properties[i].k, anno.properties[i].v>> : i \in 1..Len(anno.properties)}

SameAnnotation(a, b) ==
    /\ a.uuid = b.uuid
    /\ a.tag.uuid = b.tag.uuid
    /\ a.ranges = b.ranges
    /\ PropertyValues(a) = PropertyValues(b)

SameCollection(c, d) ==
    /\ {c.tagsets[i].uuid : i \in 1..Len(c.tagsets)} = {d.tagsets[i].uuid : i \in 1..Len(d.tagsets)}
    /\ \A i \in 1..Len(c.annotations) : \E j \in 1..Len(d.annotations) :
          SameAnnotation(c.annotations[i], d.annotations[j])
    /\ \A j \in 1..Len(d.annotations) : \E i \in 1..Len(c.annotations) :
          SameAnnotation(c.annotations[i], d.annotations[j])

RoundTripKeepsCollection ==
    tei_pc \in {"raised", "reread"} =>
        tei_pc = "reread" /\ SameCollection(first_read, reader)

(***************************************************************************)
(* Properties of the merged ranges                                         *)
(***************************************************************************)
\* C20: the overlays apply builds for one annotation are its maximal merged
\* ranges: in the order built, the end of an overlay is less than the start
\* of the next one, and the overlays cover exactly the characters that the
\* ranges of the annotation cover.
OverlaysOf(a) == SelectSeq(document_annotations, LAMBDA da : da.annotation = a)

CharsOf(ranges) == {p \in 0..(MaxAgainFlat + 1) : \E i \in 1..Len(ranges) : ranges[i].start <= p /\ p < ranges[i].end}

OverlayRanges(a) == [i \in 1..Len(OverlaysOf(a)) |-> OverlaysOf(a)[i].range]

OverlaysAreMergedRanges ==
    \A a \in 1..Len(doc_annotations) :
        /\ \A i \in 1..(Len(OverlayRanges(a)) - 1) :
              OverlayRanges(a)[i].end < OverlayRanges(a)[i + 1].start
        /\ CharsOf(OverlayRanges(a)) = CharsOf(doc_annotations[a])

(***************************************************************************)
(* Properties of the projector as a whole                                  *)
(***************************************************************************)
\* C21: when every range handed to apply lies within [0, L), apply never
\* ends with an exception: no anchor selector returns None, no layer is
\* looked up in vain by get_chunks_for_layer and no chunk node is missing
\* from its recorded parent, whatever was applied before
ApplyNeverRaises == RangesInsideText => doc_pc # "raised"

(***************************************************************************)
(* Properties of the position pointer                                      *)
(***************************************************************************)
\* the newest chunk of the trail of the pointer
LastChunk == pointer.chunks[Len(pointer.chunks)]

\* C22: the lock protocol of a pointer walked by seek_position. pos starts at
\* 0 and never decreases; an unlocked pointer has pos <= target, a locked
\* pointer has pos > target and the newest chunk of its trail has
\* start <= target < end; an advance of an unlocked pointer locks it exactly
\* when it leaves pos > target; a locked pointer stays locked and no later
\* increment or increment_by_newline changes its pos or its trail.
PointerLockProtocol ==
    /\ [](/\ pointer.pos >= 0
          /\ pointer.chunks = <<>> => pointer.pos = 0 /\ ~pointer.locked
          /\ pointer.locked <=> pointer.pos > pointer.search_pos
          /\ pointer.locked =>
                /\ LastChunk.range.start <= pointer.search_pos
                /\ pointer.search_pos < LastChunk.range.end)
    /\ [][/\ pointer'.pos >= pointer.pos
          /\ pointer.locked => pointer' = pointer
          /\ pointer'.locked => pointer'.chunks # <<>>]_vars

\* a pointer locked by a synthetic newline and then handed the tail of the
\* same element: the increment of a locked pointer
PointerLockWitness ==
    /\ pointer.locked
    /\ LastChunk.is_newline
    /\ seek_stack # <<>>
    /\ SeekTop.pc = "tail"
    /\ has_tail_content(nodes[SeekTop.node])

\* the chunks of the trail of the pointer that contain its target on the
\* inclusive-edge predicate
Containing ==
    {i \in 1..Len(pointer.chunks) :
        /\ pointer.chunks[i].range.start <= pointer.search_pos
        /\ pointer.search_pos <= pointer.chunks[i].range.end}

\* the chunks that are no synthetic newline
NonNewline == {i \in 1..Len(pointer.chunks) : ~pointer.chunks[i].is_newline}

\* the newest chunk of a set of chunks of the trail, 0 when there is none
Newest(S) == IF S = {} THEN 0 ELSE CHOOSE i \in S : \A j \in S : j <= i

\* C23: get_max_matching_chunk never returns a synthetic newline chunk. It
\* returns the newest chunk that is no newline and that contains the target
\* on the inclusive edge or is older than a chunk that does. For a locked
\* pointer this is the chunk with start <= target < end, the newest of the
\* trail, when that is no newline, and the nearest older chunk that is no
\* newline when it is one.
MaxMatchingChunk ==
    /\ get_max_matching_chunk(pointer) \in NonNewline \cup {0}
    /\ get_max_matching_chunk(pointer) =
          Newest({i \in NonNewline : \E j \in Containing : i <= j})
    /\ pointer.locked =>
          get_max_matching_chunk(pointer) =
             IF LastChunk.is_newline
             THEN Newest(NonNewline \ {Len(pointer.chunks)})
             ELSE Len(pointer.chunks)

\* the target of a locked pointer falls on a synthetic newline, and the
\* nearest older chunk that is no newline is not the one right before it
MaxMatchingWitness ==
    /\ pointer.locked
    /\ seek_stack = <<>>
    /\ LastChunk.is_newline
    /\ get_max_matching_chunk(pointer) # 0
    /\ get_max_matching_chunk(pointer) < Len(pointer.chunks) - 1

\* the chunks that are no newline and do not contain the target of the
\* pointer on the inclusive-edge predicate
NotContaining == NonNewline \ Containing

\* C24: on a pointer that finished its walk locked, get_min_matching_chunk
\* returns the chunk that follows, in trail order, the newest chunk that is
\* no newline and does not contain the target on the inclusive edge; when
\* no chunk is such a chunk it returns the oldest chunk of the trail.
MinMatchingChunk ==
    (seek_stack = <<>> /\ pointer.locked) =>
        get_min_matching_chunk(pointer) =
            IF NotContaining = {} THEN 1 ELSE Newest(NotContaining) + 1

(***************************************************************************)
(* Properties of the layers of a cross-boundary overlay                    *)
(***************************************************************************)
\* apply has just computed the layers of a cross-boundary overlay
LayersComputed == doc_pc = "layers" /\ last_step.kind = "layers"

\* no layer but the layer of the end chunk lies below an earlier layer
NoLayerBelowEarlier ==
    \A i \in 1..Len(layers) : \A j \in (i + 1)..Len(layers) :
        layers[j] # get_layer(parent_map, EndAnchor) =>
            layers[j] \notin DescendantsOf(nodes, layers[i])

\* get_chunks_for_layer has a group of chunks for every layer
EveryLayerHasChunks ==
    \A i \in 1..Len(layers) :
        ~get_chunks_for_layer(CurrentDoc, apply_index,
            Ref(apply_index, "start_pos", get_max_matching_chunk(NextOverlay.start_pos)),
            Ref(apply_index, "end_pos", get_min_matching_chunk(NextOverlay.end_pos)),
            layers[i]).err

\* C25: when the ranges lie inside the text and apply has computed the
\* layers of a cross-boundary overlay, no layer of the sequence other than
\* the layer of the end chunk is a proper descendant of an earlier layer
\* (a chunk below a layer of the list, the root included, counts for that
\* layer), and get_chunks_for_layer groups chunks under every layer of the
\* sequence.
LayerPromotion ==
    (RangesInsideText /\ LayersComputed) =>
        NoLayerBelowEarlier /\ EveryLayerHasChunks

(***************************************************************************)
(* Properties of parent_map                                                *)
(***************************************************************************)
\* a surgery step has just been made: a single-chunk insertion or the
\* insertion of one layer with its re-parenting
SurgeryStep == last_step.kind \in {"single", "layer"}

\* C26: after every surgery step (single-chunk insertion, layer insertion
\* with the re-parenting of inner and end chunk nodes) parent_map holds,
\* for every element of the tree other than the root, the inserted
\* annotation elements included, the element whose child list contains it.
ParentMapAgrees ==
    SurgeryStep =>
        \A c \in InTree(nodes) \ {1} : parent_map[c] = ParentMapOf(nodes)[c]

\* a layer step has re-parented an element under the annotation element it
\* inserted
ParentMapWitness ==
    /\ last_step.kind = "layer"
    /\ last_step.new # 0
    /\ \E c \in 1..Len(source) :
          /\ parent_map[c] = last_step.new
          /\ SeqIndex(nodes[last_step.new].children, c) # 0

(***************************************************************************)
(* Properties of HotCorefDeTokenHandler                                    *)
(***************************************************************************)
\* the first value of column 13 of the line is a close marker, and the
\* handler has no open coreference of its index
DanglingClose(self, line) ==
    LET coref == Coref(line.entries[1], <<"-">>)
    IN  /\ coref.isclosed /\ ~coref.isopened
        /\ \/ ~dict_has(self.opencorefs, coref.index)
           \/ dict_get(self.opencorefs, coref.index) = <<>>

\* C27: a call of token for a line that starts column 13 with a close
\* marker for which the handler has no open coreference of that index
\* returns without an exception, and it has printed a WARNING.
DanglingCloseSkipped ==
    [][DanglingClose(handler, token_line') =>
          token_pc' = "returned" /\ Len(stdout') > Len(stdout)]_vars

(***************************************************************************)
(* Properties of the characters of the tree                                *)
(***************************************************************************)
\* a string of the tree as characters, none for None
StrOf(s) == IF s = NoneStr THEN <<>> ELSE s

\* the text and tail strings of element node and of the elements below it,
\* concatenated in document order
RECURSIVE AllText(_, _)
RECURSIVE AllTextOfAll(_, _)
AllText(ns, node) ==
    StrOf(ns[node].text) \o AllTextOfAll(ns, ns[node].children) \o StrOf(ns[node].tail)

AllTextOfAll(ns, children) ==
    IF children = <<>> THEN <<>>
    ELSE AllText(ns, Head(children)) \o AllTextOfAll(ns, Tail(children))

\* C28: while apply applies overlays whose ranges lie within [0, L), after
\* every surgery step and when it has returned, the text and tail strings
\* of the tree concatenated in document order are those of the source
\* document: no character is lost, duplicated or moved.
CharactersPreserved ==
    (RangesInsideText /\ (SurgeryStep \/ Applied)) => AllText(nodes, 1) = AllText(source, 1)

(***************************************************************************)
(* Properties of the trails under recalculation                            *)
(***************************************************************************)
\* the trails of the live pointers: both pointers of every overlay
Trails ==
    {document_annotations[i].start_pos.chunks : i \in 1..Len(document_annotations)}
    \cup {document_annotations[i].end_pos.chunks : i \in 1..Len(document_annotations)}

\* the chunks of a trail are in increasing order and do not overlap
TrailOrdered(chunks) ==
    \A i \in 1..Len(chunks) :
        /\ chunks[i].range.start <= chunks[i].range.end
        /\ i > 1 => chunks[i - 1].range.end <= chunks[i].range.start

\* the range of a chunk that is no newline is as long as the string of its
\* node is now
TrailMatchesStrings(chunks) ==
    \A i \in 1..Len(chunks) :
        ~chunks[i].is_newline =>
            chunks[i].range.end - chunks[i].range.start
                = Len(StrOf(chunk_string(nodes, chunks[i])))

\* C29: after every overlay application with the recalculation that
\* follows it, in the trail of every live pointer the chunks are in
\* increasing order without overlaps and the range of every chunk that is
\* no newline is as long as the text (or tail) of its node is now.
TrailsConsistent ==
    SurgeryStep =>
        \A chunks \in Trails : TrailOrdered(chunks) /\ TrailMatchesStrings(chunks)

(***************************************************************************)
(* Properties of the calls of apply                                        *)
(***************************************************************************)
\* C30: over the calls of apply on one document every overlay is applied
\* at most once: a surgery step of a call applies an overlay built for that
\* call, never one that document_annotations held when the call was
\* entered.
OverlaysAppliedOnce ==
    SurgeryStep => last_step.da > Len(entry.das)

====
